---- MODULE Spec2Model ----
(***************************************************************************)
(* GenForge front end: the 3D job polling sequence (api.generate3D), the   *)
(* Generator page that drives it (handleGenerate and the zustand store),   *)
(* and the sprite player (SpriteAnimator).                                 *)
(*                                                                         *)
(* JavaScript strings are sequences of one-character strings, so that      *)
(* startsWith, includes, slice and concatenation are computed as the code  *)
(* computes them.  An optional value (undefined / null) is a               *)
(* sequence of length 0 or 1: None = << >>, Some(v) = << v >>.             *)
(***************************************************************************)
EXTENDS Naturals, Integers, Sequences, FiniteSets, Bags, TLC

\* ------------------------------------------------------------------ bounds
\* Number of generation attempts one behaviour may start.
MaxRuns == 2

\* The clock of animation-frame timestamps stops at MaxTime.
MaxTime == 400

\* Number of user gestures and environment events, other than the steps of
\* a generation attempt, that one behaviour of the whole page may take.
MaxEvents == 5

\* Number of times one behaviour of the player alone may replace the player
\* instance (an animation tab, a mode button).
MaxRemounts == 1

\* Number of events of the player and the page around it, other than image
\* loads settling and the steps of a generation under way, in one behaviour of
\* the loading of sheets.
MaxLoadEvents == 2

\* ------------------------------------------------------------ JS strings
None == << >>
Some(v) == << v >>

\* `x || ''` for an optional string x: undefined and '' are both falsy.
OrEmpty(x) == IF x = None THEN << >> ELSE x[1]

\* Variant of OrElse that never uses the given value.
AlwaysFallback(x, fallback) == fallback

\* `x || fallback` for an optional string x.
OrElse(x, fallback) == IF x = None \/ x[1] = << >> THEN fallback ELSE x[1]

\* String.prototype.startsWith
StartsWith(s, p) == Len(s) >= Len(p) /\ SubSeq(s, 1, Len(p)) = p

\* String.prototype.includes
Includes(s, p) == \E k \in 0..(Len(s) - Len(p)) : SubSeq(s, k + 1, k + Len(p)) = p

\* String.prototype.slice(0, n)
Slice0(s, n) == SubSeq(s, 1, IF Len(s) < n THEN Len(s) ELSE n)

\* A string is a sequence of characters.  A character of ASCII is the string
\* of that character; a code point outside ASCII is the string of its name,
\* "U+212A".  The three white-space code points that a string written here
\* can hold are accepted as they are, too.
UpperCase == <<"A","B","C","D","E","F","G","H","I","J","K","L","M","N","O","P","Q","R","S","T","U","V","W","X","Y","Z">>
LowerCase == <<"a","b","c","d","e","f","g","h","i","j","k","l","m","n","o","p","q","r","s","t","u","v","w","x","y","z">>

\* s.toLowerCase().includes(word), for a word of ASCII characters.
\* toLowerCase gives an ASCII character for an ASCII character only (the
\* small letter of a capital, the character itself otherwise), and outside
\* ASCII for two code points: the Kelvin sign U+212A becomes "k", and the
\* dotted capital I U+0130 becomes "i" followed by the combining dot U+0307.
\* Whatever any other code point becomes (another code point, or the final
\* form of a sigma) lies outside ASCII, as the code point itself does, so it
\* stands where the word cannot: the word lies in the lowered text exactly
\* where it lies, letter by letter, in the text lowered that far.  U+0130
\* can only end it, for U+0307 follows its "i".
LowerCaseIncludes(s, word) ==
  \E i \in 0..(Len(s) - Len(word)) :
    \A k \in 1..Len(word) :
      LET c == s[i + k]
      IN IF c = "U+0130" THEN k = Len(word) /\ word[k] = "i"
         ELSE IF c = "U+212A" THEN word[k] = "k"
         ELSE IF \E n \in 1..Len(UpperCase) : UpperCase[n] = c
              THEN \E n \in 1..Len(UpperCase) : UpperCase[n] = c /\ LowerCase[n] = word[k]
              ELSE c = word[k]

\* The 25 code points String.prototype.trim strips (WhiteSpace and
\* LineTerminator of ECMAScript): tab U+0009, line feed U+000A, vertical tab
\* U+000B, form feed U+000C, carriage return U+000D, space U+0020, and
\* outside ASCII the no-break space U+00A0, the ogham space mark U+1680, the
\* spaces U+2000 to U+200A, the line and paragraph separators U+2028 and
\* U+2029, U+202F, U+205F, the ideographic space U+3000 and the byte order
\* mark U+FEFF.
WhiteSpace ==
  {"\t", "\n", "", "\f", "\r", " "}
    \cup {"U+00A0", "U+1680", "U+2000", "U+2001", "U+2002", "U+2003", "U+2004",
          "U+2005", "U+2006", "U+2007", "U+2008", "U+2009", "U+200A", "U+2028",
          "U+2029", "U+202F", "U+205F", "U+3000", "U+FEFF"}
    \cup {" ", " ", "﻿"}

\* String.prototype.trim
RECURSIVE TrimStart(_)
TrimStart(s) == IF s # << >> /\ Head(s) \in WhiteSpace THEN TrimStart(Tail(s)) ELSE s

RECURSIVE TrimEnd(_)
TrimEnd(s) == IF s # << >> /\ s[Len(s)] \in WhiteSpace
              THEN TrimEnd(SubSeq(s, 1, Len(s) - 1)) ELSE s

Trim(s) == TrimEnd(TrimStart(s))

\* ------------------------------------------------------- string constants
MODEL_3D_API_BASE == <<"h","t","t","p",":","/","/","l","o","c","a","l","h","o","s","t",":","8","0","0","0">>

MsgEnterPrompt == <<"P","l","e","a","s","e"," ","e","n","t","e","r"," ","a"," ","p","r","o","m","p","t">>
MsgStarting3D == <<"S","t","a","r","t","i","n","g"," ","3","D"," ","g","e","n","e","r","a","t","i","o","n"," ","p","i","p","e","l","i","n","e",".",".",".">>
MsgPipelineStartedPre == <<"P","i","p","e","l","i","n","e"," ","s","t","a","r","t","e","d"," ","(","J","o","b",":"," ">>
MsgPipelineStartedPost == <<".",".",".",")">>
MsgWaiting == <<"W","a","i","t","i","n","g"," ","t","o"," ","s","t","a","r","t",".",".",".">>
MsgFibo == <<"G","e","n","e","r","a","t","i","n","g"," ","r","e","f","e","r","e","n","c","e"," ","i","m","a","g","e"," ","w","i","t","h"," ","F","I","B","O",".",".",".">>
MsgTripo == <<"C","o","n","v","e","r","t","i","n","g"," ","t","o"," ","3","D"," ","m","o","d","e","l"," ","w","i","t","h"," ","T","R","I","P","O",".",".",".">>
MsgComplete == <<"C","o","m","p","l","e","t","e","!">>
MsgPipelineFailed == <<"P","i","p","e","l","i","n","e"," ","f","a","i","l","e","d">>
MsgTimedOut == <<"P","i","p","e","l","i","n","e"," ","t","i","m","e","d"," ","o","u","t">>
MsgStartFailedPre == <<"F","a","i","l","e","d"," ","t","o"," ","s","t","a","r","t"," ","3","D"," ","p","i","p","e","l","i","n","e",":"," ">>
MsgStatusFailedPre == <<"F","a","i","l","e","d"," ","t","o"," ","g","e","t"," ","j","o","b"," ","s","t","a","t","u","s",":"," ">>
MsgFailedToFetch == <<"F","a","i","l","e","d"," ","t","o"," ","f","e","t","c","h">>
MsgModeration == <<"Y","o","u","r"," ","p","r","o","m","p","t"," ","w","a","s"," ","f","l","a","g","g","e","d"," ","b","y"," ","c","o","n","t","e","n","t"," ","m","o","d","e","r","a","t","i","o","n","."," ","P","l","e","a","s","e"," ","t","r","y"," ","a"," ","d","i","f","f","e","r","e","n","t"," ","d","e","s","c","r","i","p","t","i","o","n"," ","w","i","t","h","o","u","t"," ","p","o","t","e","n","t","i","a","l","l","y"," ","o","f","f","e","n","s","i","v","e"," ","o","r"," ","i","n","a","p","p","r","o","p","r","i","a","t","e"," ","c","o","n","t","e","n","t",".">>
MsgNetwork == <<"N","e","t","w","o","r","k"," ","e","r","r","o","r","."," ","P","l","e","a","s","e"," ","c","h","e","c","k"," ","y","o","u","r"," ","c","o","n","n","e","c","t","i","o","n"," ","a","n","d"," ","e","n","s","u","r","e"," ","t","h","e"," ","b","a","c","k","e","n","d"," ","s","e","r","v","e","r"," ","i","s"," ","r","u","n","n","i","n","g",".">>
MsgFiboEnhanced == <<"U","s","i","n","g"," ","F","I","B","O"," ","E","n","h","a","n","c","e","d"," ","m","o","d","e",".",".",".">>
MsgPreparing == <<"P","r","e","p","a","r","i","n","g"," ","g","e","n","e","r","a","t","i","o","n",".",".",".">>
MsgGeneratingSheets == <<"G","e","n","e","r","a","t","i","n","g"," ","s","p","r","i","t","e"," ","s","h","e","e","t","s",".",".",".">>
MsgApiErrorPre == <<"A","P","I"," ","e","r","r","o","r",":"," ">>


\* ----------------------------------------------------------- test inputs
\* Job ids a submission may return (UUID-like text).
JobIds == { <<"3","f","9","a","1","c","2","e","-","7","7">> }

\* HTTP status codes of a non-2xx answer, as printed by `${response.status}`.
HttpErrorCodes == { <<"5","0","0">> }

UrlAbsModel == <<"h","t","t","p",":","/","/","c","d","n","/","m",".","g","l","b">>
UrlRelModel == <<"/","f","i","l","e","s","/","m",".","g","l","b">>
UrlBareModel == <<"m",".","g","l","b">>
UrlImage == <<"h","t","t","p",":","/","/","c","d","n","/","i",".","p","n","g">>
ErrBadInput == <<"b","a","d"," ","i","n","p","u","t">>

\* model_url / image_url / error as a status answer may carry them
ModelUrls == { None, Some(UrlAbsModel), Some(UrlRelModel), Some(UrlBareModel) }
ImageUrls == { None, Some(UrlImage) }
ErrorTexts == { None, Some(<< >>), Some(ErrBadInput) }

\* The status strings of GET /3d/status/{job_id}; "queued" stands for any
\* string that is none of the five the switch knows.
NonTerminalStatuses == { "pending", "generating_image", "generating_3d", "queued" }

\* What one call of api.get3DJobStatus can come back with: the parsed body,
\* a non-2xx answer, or a rejected fetch.
StatusAnswers ==
       { [kind |-> "ok", status |-> s, image_url |-> None, model_url |-> None,
          error |-> None, code |-> << >>] : s \in NonTerminalStatuses }
  \cup { [kind |-> "ok", status |-> "completed", image_url |-> iu, model_url |-> mu,
          error |-> None, code |-> << >>] : iu \in ImageUrls, mu \in ModelUrls }
  \cup { [kind |-> "ok", status |-> "failed", image_url |-> None, model_url |-> None,
          error |-> e, code |-> << >>] : e \in ErrorTexts }
  \cup { [kind |-> "http", status |-> "", image_url |-> None, model_url |-> None,
          error |-> None, code |-> c] : c \in HttpErrorCodes }
  \cup { [kind |-> "network", status |-> "", image_url |-> None, model_url |-> None,
          error |-> None, code |-> << >>] }

\* The answers used where the page is modelled around the call: the three
\* known stages, one `completed` answer, `failed` with and without an error
\* text, and a rejected fetch.
AppStatusAnswers ==
  { a \in StatusAnswers :
      /\ a.kind \in {"ok", "network"}
      /\ a.status # "queued"
      /\ a.status = "completed" => (a.image_url = Some(UrlImage) /\ a.model_url = Some(UrlRelModel))
      /\ a.status = "failed" => a.error # Some(<< >>) }

\* What api.start3DPipeline can come back with.
StartAnswers ==
       { [kind |-> "ok", job_id |-> j, code |-> << >>] : j \in JobIds }
  \cup { [kind |-> "http", job_id |-> << >>, code |-> c] : c \in HttpErrorCodes }
  \cup { [kind |-> "network", job_id |-> << >>, code |-> << >>] }

\* ---- sprite backend answers
SPRITE_API_BASE == <<"h","t","t","p",":","/","/","l","o","c","a","l","h","o","s","t",":","5","0","0","0">>

AnimIdle == <<"i","d","l","e">>
AnimWalk == <<"w","a","l","k">>
SuffixGif == <<"_","g","i","f">>
SuffixSheet == <<"_","s","h","e","e","t">>
KeyCombinedSheet == <<"c","o","m","b","i","n","e","d","_","s","h","e","e","t">>

SpriteJobIds == { <<"s","1">> }

\* The `animations` record of a result, in key order: name and frame_count.
\* frame_count 0 stands for a missing or zero count (both falsy).
AnimationLists ==
  { << [name |-> AnimIdle, frame_count |-> 4] >>,
    << [name |-> AnimIdle, frame_count |-> 4], [name |-> AnimWalk, frame_count |-> 6] >>,
    << [name |-> AnimWalk, frame_count |-> 3], [name |-> AnimIdle, frame_count |-> 0] >> }

AnimNames(anims) == { anims[k].name : k \in 1..Len(anims) }

\* download_urls of a result: one relative path per key.
DownloadUrls(job, anims) ==
  [key \in {KeyCombinedSheet} \cup { n \o SuffixGif : n \in AnimNames(anims) }
                              \cup { n \o SuffixSheet : n \in AnimNames(anims) }
     |-> <<"/">> \o job \o <<"/">> \o key]

FrameSizes == { <<64, 64>> }

\* error.error of a non-2xx answer of POST /generate: absent, a moderation
\* refusal, a text with a network word, a text with words of both classes
\* (and a capital letter), a text with none, a text whose only word has a
\* capital letter, and one whose word is in capitals with the Kelvin sign
\* for its K.
ErrModerationFlagged == <<"c","o","n","t","e","n","t"," ","m","o","d","e","r","a","t","i","o","n"," ","f","l","a","g","g","e","d">>
ErrGatewayTimeout == <<"g","a","t","e","w","a","y"," ","t","i","m","e","o","u","t">>
ErrFetchOfContent == <<"F","e","t","c","h"," ","o","f"," ","c","o","n","t","e","n","t"," ","f","a","i","l","e","d">>
ErrBadPreset == <<"b","a","d"," ","p","r","e","s","e","t">>
ErrFetchFailed == <<"F","e","t","c","h"," ","f","a","i","l","e","d">>
ErrKelvinNetwork == <<"N","E","T","W","O","R","U+212A"," ","d","o","w","n">>

SpriteErrorTexts == { None, Some(ErrModerationFlagged), Some(ErrGatewayTimeout),
                      Some(ErrFetchOfContent), Some(ErrBadPreset),
                      Some(ErrFetchFailed), Some(ErrKelvinNetwork) }

\* What api.generateSprite can come back with.
SpriteAnswers ==
       { [kind |-> "ok", code |-> << >>, error |-> None,
          result |-> Some([job_id |-> j, animations |-> a, frame_size |-> fs,
                           download_urls |-> DownloadUrls(j, a)])]
            : j \in SpriteJobIds, a \in AnimationLists, fs \in FrameSizes }
  \cup { [kind |-> "http", code |-> c, error |-> e, result |-> None]
            : c \in { <<"4","0","0">> }, e \in SpriteErrorTexts }
  \cup { [kind |-> "network", code |-> << >>, error |-> None, result |-> None] }

\* Results for the loading of sheets: frame counts that divide the sheet
\* width and ones that do not, a missing count (0), a negative count, and
\* frame sizes given (non-zero) or not (0, falsy).
LoadAnimationLists ==
  { << [name |-> AnimIdle, frame_count |-> 6], [name |-> AnimWalk, frame_count |-> 4] >>,
    << [name |-> AnimIdle, frame_count |-> 0] >>,
    << [name |-> AnimWalk, frame_count |-> 7] >>,
    << [name |-> AnimIdle, frame_count |-> -1] >> }

LoadFrameSizes == { <<64, 64>>, <<0, 0>>, <<96, 32>> }

LoadResults ==
  { [job_id |-> j, animations |-> a, frame_size |-> fs, download_urls |-> DownloadUrls(j, a)]
      : j \in SpriteJobIds, a \in LoadAnimationLists, fs \in LoadFrameSizes }

\* What api.generateSprite comes back with when the user generates again in
\* the loading of sheets: the result with two animations, in each of the
\* frame sizes, or a rejected fetch.
LoadAnswers ==
       { [kind |-> "ok", code |-> << >>, error |-> None, result |-> Some(r)]
           : r \in { q \in LoadResults : Len(q.animations) = 2 } }
  \cup { [kind |-> "network", code |-> << >>, error |-> None, result |-> None] }

\* Decoded sizes (width, height) of sheet images for the loading of sheets.
LoadSheetSizes == { <<384, 64>>, <<250, 60>>, <<256, 64>> }

\* Decoded size (width, height) of a sheet image.
SheetSizes == { <<384, 64>>, <<250, 60>> }

\* Time between two animation-frame callbacks, or spent without one, ms.
FrameDeltas == { 50, 150 }

\* The same for the player alone.
PlayerFrameDeltas == { 150 }

\* Every position of the speed slider: min 30, max 300, step 10.
SliderPositions == { 30 + 10 * k : k \in 0..27 }

\* Positions of the speed slider (min 30, max 300, step 10) that are tried.
SliderValues == { 30, 230, 300 }

\* Texts the user may have typed into the prompt box.
Prompts == { << >>, <<" ", "\n", "\t", "", "U+3000">>, <<"c","a","t">> }

\* ------------------------------------------------------------------ state
VARIABLES
  \* zustand store (useAppStore)
  selectedMode,       \* '3D' | 'SPRITE'
  prompt,             \* text of the prompt box
  isGenerating,       \* boolean
  generationStatus,   \* 'idle' | 'generating' | 'completed' | 'failed'
  steps,              \* sequence of [id, status]
  currentResult,      \* optional Asset
  \* Generator page (React component state; lost when the page unmounts)
  mounted,            \* the /generate route is rendered
  backend3DStatus,    \* 'checking' | 'online' | 'offline'
  spriteBackendStatus,
  presets,            \* 'none' | 'loaded': the presets hold the selected preset
  checks,             \* bag: where each round of checkBackends still going on is suspended
  useFiboEnhanced,    \* boolean, the FIBO Enhanced switch of the Advanced Options
  errorMessage,       \* optional string
  errorType,          \* 'moderation' | 'network' | 'general'
  progressMessage,    \* string
  spriteResult,       \* optional SpriteGenerationResult
  selectedAnimation,  \* name of the animation tab shown
  animationSpeed,     \* ms per frame, handed to the player as `speed`
  isPlaying,          \* handed to the player as `externalIsPlaying`
  \* SpriteAnimator (the instance rendered by the page, when one is)
  viewMode,           \* 'preview' | 'sheet'
  imgError,           \* boolean
  currentFrame,       \* index of the frame shown
  sheetDimensions,    \* optional [width, height] of the decoded sheet
  frames,             \* the extracted frames, in order
  rafPending,         \* animationRef holds a requested animation frame
  lastFrameTimeRef,   \* timestamp of the latest advance
  loadPending,        \* the Image of the load effect has not settled yet
  orphanLoads,        \* bag: loads of unmounted instances of the player that have not settled yet
  lastOp,             \* observer: the latest operation on this player instance
  now,                \* the clock of requestAnimationFrame timestamps, ms
  \* one call of handleGenerate / api.generate3D
  pc,                 \* where the async call is suspended
  attempt,            \* loop counter i of generate3D
  jobId,              \* job_id returned by the submission
  outcome,            \* how api.generate3D settled
  ownerMounted,       \* the component instance that made the call is still mounted
  runPrompt,          \* prompt captured by the handleGenerate closure
  \* observers of the current call
  runs,               \* generation attempts started so far
  polls,              \* calls of api.get3DJobStatus made by the current call
  progressCalls,      \* invocations of onProgress since the latest status poll was issued
  allPending,         \* every status answer so far said 'pending'
  finalAnswer,        \* optional: the latest answer that was not a status in progress
  cancelled,          \* the user left the page while the current call was running
  events              \* observer: gestures and environment events counted so far

storeVars == << selectedMode, prompt, isGenerating, generationStatus, steps, currentResult >>
pageVars == << mounted, backend3DStatus, spriteBackendStatus, presets, useFiboEnhanced, checks,
              errorMessage, errorType,
              progressMessage, spriteResult, selectedAnimation >>
genVars == << animationSpeed, isPlaying >>
playerVars == << viewMode, imgError, currentFrame, sheetDimensions, frames, rafPending,
                lastFrameTimeRef, loadPending, orphanLoads, lastOp >>
runVars == << pc, attempt, jobId, outcome, ownerMounted, runPrompt >>
obsVars == << runs, polls, progressCalls, allPending, finalAnswer, cancelled >>
vars == << storeVars, pageVars, genVars, playerVars, now, runVars, obsVars, events >>

\* ------------------------------------------------------------------ store
INITIAL_STEPS_3D ==
  << [id |-> "structured", status |-> "pending"],
     [id |-> "canonical", status |-> "pending"],
     [id |-> "mesh", status |-> "pending"],
     [id |-> "cleanup", status |-> "pending"],
     [id |-> "final", status |-> "pending"] >>

INITIAL_STEPS_SPRITE ==
  << [id |-> "concept", status |-> "pending"],
     [id |-> "spritesheet", status |-> "pending"],
     [id |-> "animation", status |-> "pending"] >>

InitialSteps(mode) == IF mode = "3D" THEN INITIAL_STEPS_3D ELSE INITIAL_STEPS_SPRITE

\* updateStep: steps.map(s => s.id === id ? { ...s, status } : s)
updateStep(st, id, status) ==
  [k \in 1..Len(st) |-> IF st[k].id = id THEN [st[k] EXCEPT !.status = status] ELSE st[k]]

StepStatus(st, id) ==
  IF \E k \in 1..Len(st) : st[k].id = id
  THEN st[CHOOSE k \in 1..Len(st) : st[k].id = id].status
  ELSE "absent"

NoOutcome == [kind |-> "none", imageUrl |-> << >>, modelUrl |-> << >>, message |-> << >>]

\* ------------------------------------------------------------ api (3D part)
\* maxAttempts of api.generate3D
maxAttempts == 120

\* Variant of ResolveModelUrl that hands model_url on as it came.
ResolveModelUrlAsIs(model_url) == OrEmpty(model_url)

\* The `completed` case: a model_url that starts with '/' gets the backend
\* base prepended; anything else is passed through.
ResolveModelUrl(model_url) ==
  LET modelUrl == OrEmpty(model_url)
  IN IF StartsWith(modelUrl, <<"/">>) THEN MODEL_3D_API_BASE \o modelUrl ELSE modelUrl

\* Variant of the switch with a default branch that reports a status it
\* does not know like `pending`.
PollSwitchDefaultReports(status) ==
  CASE status.status = "pending" ->
         [progress |-> Some(MsgWaiting), exit |-> "break", result |-> NoOutcome]
    [] status.status = "generating_image" ->
         [progress |-> Some(MsgFibo), exit |-> "break", result |-> NoOutcome]
    [] status.status = "generating_3d" ->
         [progress |-> Some(MsgTripo), exit |-> "break", result |-> NoOutcome]
    [] status.status = "completed" ->
         [progress |-> Some(MsgComplete), exit |-> "return",
          result |-> [kind |-> "resolved", imageUrl |-> OrEmpty(status.image_url),
                      modelUrl |-> ResolveModelUrl(status.model_url), message |-> << >>]]
    [] status.status = "failed" ->
         [progress |-> None, exit |-> "throw",
          result |-> [kind |-> "error", imageUrl |-> << >>, modelUrl |-> << >>,
                      message |-> OrElse(status.error, MsgPipelineFailed)]]
    [] OTHER ->
         [progress |-> Some(MsgWaiting), exit |-> "break", result |-> NoOutcome]

\* Variant of PollSwitch in which `completed` and `failed` report and then
\* fall out of the switch like the statuses in progress.
PollSwitchNoExit(status) ==
  CASE status.status = "pending" ->
         [progress |-> Some(MsgWaiting), exit |-> "break", result |-> NoOutcome]
    [] status.status = "generating_image" ->
         [progress |-> Some(MsgFibo), exit |-> "break", result |-> NoOutcome]
    [] status.status = "generating_3d" ->
         [progress |-> Some(MsgTripo), exit |-> "break", result |-> NoOutcome]
    [] status.status = "completed" ->
         [progress |-> Some(MsgComplete), exit |-> "break", result |-> NoOutcome]
    [] status.status = "failed" ->
         [progress |-> Some(MsgPipelineFailed), exit |-> "break", result |-> NoOutcome]
    [] OTHER ->
         [progress |-> None, exit |-> "break", result |-> NoOutcome]

\* The switch of api.generate3D on one parsed status answer: the onProgress
\* message (if any) and how the loop body ends.
PollSwitch(status) ==
  CASE status.status = "pending" ->
         [progress |-> Some(MsgWaiting), exit |-> "break", result |-> NoOutcome]
    [] status.status = "generating_image" ->
         [progress |-> Some(MsgFibo), exit |-> "break", result |-> NoOutcome]
    [] status.status = "generating_3d" ->
         [progress |-> Some(MsgTripo), exit |-> "break", result |-> NoOutcome]
    [] status.status = "completed" ->
         [progress |-> Some(MsgComplete), exit |-> "return",
          result |-> [kind |-> "resolved", imageUrl |-> OrEmpty(status.image_url),
                      modelUrl |-> ResolveModelUrl(status.model_url), message |-> << >>]]
    [] status.status = "failed" ->
         [progress |-> None, exit |-> "throw",
          result |-> [kind |-> "error", imageUrl |-> << >>, modelUrl |-> << >>,
                      message |-> OrElse(status.error, MsgPipelineFailed)]]
    [] OTHER ->
         [progress |-> None, exit |-> "break", result |-> NoOutcome]

\* api.get3DJobStatus: a non-2xx answer and a rejected fetch both throw.
StatusError(ans) ==
  IF ans.kind = "http" THEN MsgStatusFailedPre \o ans.code ELSE MsgFailedToFetch

\* api.start3DPipeline: likewise.
StartError(ans) ==
  IF ans.kind = "http" THEN MsgStartFailedPre \o ans.code ELSE MsgFailedToFetch

ErrorOutcome(msg) == [kind |-> "error", imageUrl |-> << >>, modelUrl |-> << >>, message |-> msg]

\* api.getOutputUrl
getOutputUrl(path) ==
  IF StartsWith(path, <<"h","t","t","p">>) THEN path
  ELSE SPRITE_API_BASE \o (IF StartsWith(path, <<"/">>) THEN << >> ELSE <<"/">>) \o path

\* api.generateSprite: error.error || `API error: ${response.status}`
SpriteError(ans) ==
  IF ans.kind = "http" THEN OrElse(ans.error, MsgApiErrorPre \o ans.code) ELSE MsgFailedToFetch

\* -------------------------------------------------------- Generator page
\* The onProgress callback handed to api.generate3D: its effect on the steps.
ProgressSteps(st, status) ==
  IF Includes(status, <<"F","I","B","O">>) \/ Includes(status, <<"i","m","a","g","e">>)
  THEN updateStep(st, "canonical", "active")
  ELSE IF Includes(status, <<"T","R","I","P","O">>) \/ Includes(status, <<"3","D">>)
       THEN updateStep(updateStep(st, "canonical", "completed"), "mesh", "active")
       ELSE st

\* A catch block that looks for the network words first.
ErrorClassNetworkFirst(errorMsg) ==
  IF LowerCaseIncludes(errorMsg, <<"n","e","t","w","o","r","k">>)
     \/ LowerCaseIncludes(errorMsg, <<"f","e","t","c","h">>)
     \/ LowerCaseIncludes(errorMsg, <<"t","i","m","e","o","u","t">>)
  THEN "network"
  ELSE IF LowerCaseIncludes(errorMsg, <<"m","o","d","e","r","a","t","i","o","n">>)
          \/ LowerCaseIncludes(errorMsg, <<"c","o","n","t","e","n","t">>)
       THEN "moderation"
       ELSE "general"

\* The catch block of handleGenerate: the class of an error message.
ErrorClass(errorMsg) ==
  IF LowerCaseIncludes(errorMsg, <<"m","o","d","e","r","a","t","i","o","n">>)
     \/ LowerCaseIncludes(errorMsg, <<"c","o","n","t","e","n","t">>)
  THEN "moderation"
  ELSE IF LowerCaseIncludes(errorMsg, <<"n","e","t","w","o","r","k">>)
          \/ LowerCaseIncludes(errorMsg, <<"f","e","t","c","h">>)
          \/ LowerCaseIncludes(errorMsg, <<"t","i","m","e","o","u","t">>)
       THEN "network"
       ELSE "general"

\* The catch block of handleGenerate: the text shown for an error message.
ErrorText(errorMsg) ==
  CASE ErrorClass(errorMsg) = "moderation" -> MsgModeration
    [] ErrorClass(errorMsg) = "network" -> MsgNetwork
    [] OTHER -> errorMsg

Digits == <<"0","1","2","3","4","5","6","7","8","9">>

\* Date.now().toString(): the clock is read once per generation attempt; the
\* attempt number stands for the time read.
NowText(n) == << Digits[n + 1] >>

Running == pc \notin {"idle", "done"}

InitialPage ==
  /\ backend3DStatus = "checking"
  /\ spriteBackendStatus = "checking"
  /\ presets = "none"
  /\ checks = EmptyBag
  /\ useFiboEnhanced = FALSE
  /\ errorMessage = None
  /\ errorType = "general"
  /\ progressMessage = << >>
  /\ spriteResult = None
  /\ selectedAnimation = << >>
  /\ animationSpeed = 100
  /\ isPlaying = TRUE

\* No SpriteAnimator is rendered.
NoPlayer ==
  /\ viewMode = "preview"
  /\ imgError = FALSE
  /\ currentFrame = 0
  /\ sheetDimensions = None
  /\ frames = << >>
  /\ rafPending = FALSE
  /\ lastFrameTimeRef = 0
  /\ loadPending = FALSE
  /\ orphanLoads = EmptyBag
  /\ lastOp = "none"

Init ==
  /\ selectedMode = "3D"
  /\ prompt = << >>
  /\ isGenerating = FALSE
  /\ generationStatus = "idle"
  /\ steps = INITIAL_STEPS_3D
  /\ currentResult = None
  /\ mounted = FALSE
  /\ InitialPage
  /\ NoPlayer
  /\ now = 0
  /\ pc = "idle"
  /\ attempt = 0
  /\ jobId = None
  /\ outcome = NoOutcome
  /\ ownerMounted = FALSE
  /\ runPrompt = << >>
  /\ runs = 0
  /\ polls = 0
  /\ progressCalls = 0
  /\ allPending = TRUE
  /\ finalAnswer = None
  /\ cancelled = FALSE
  /\ events = 0

\* ------------------------------------------- SpriteAnimator in the page
\* The page renders a SpriteAnimator when
\* currentResult && selectedMode === 'SPRITE' && spriteResult.
PlayerVisible(m, mode, cr, sr) == m /\ cr # None /\ mode = "SPRITE" /\ sr # None

\* spriteResult.animations[name]?.frame_count, 0 when the name is no key
FrameCountOf(result, name) ==
  IF \E k \in 1..Len(result.animations) : result.animations[k].name = name
  THEN result.animations[CHOOSE k \in 1..Len(result.animations) :
                           result.animations[k].name = name].frame_count
  ELSE 0

\* The frameCount prop: frame_count || 6
frameCount == LET fc == FrameCountOf(spriteResult[1], selectedAnimation)
              IN IF fc = 0 THEN 6 ELSE fc

\* The frameWidth / frameHeight props: spriteResult.frame_size
frameWidth == spriteResult[1].frame_size[1]
frameHeight == spriteResult[1].frame_size[2]

\* The sheetUrl prop
sheetUrl == getOutputUrl(spriteResult[1].download_urls[selectedAnimation \o SuffixSheet])


\* An animation-loop effect that leaves out the test of isPlaying.
RafWantedWhilePaused(playing, mode, fr) == mode = "preview" /\ Len(fr) # 0

\* The animation-loop effect: a frame is requested exactly when the player
\* is playing the preview and has frames; otherwise the pending one is
\* cancelled.
RafWanted(playing, mode, fr) == playing /\ mode = "preview" /\ Len(fr) # 0

\* The Image of a load effect is not cancelled when its player instance is
\* unmounted: a load still pending stays out, with the inputs it was started
\* for, beside whatever the page renders next.  Two instances may have
\* started loads of one sheet, so the loads left over are a bag.
OrphansAfterUnmount ==
  IF PlayerVisible(mounted, selectedMode, currentResult, spriteResult) /\ loadPending
  THEN orphanLoads (+) SetToBag({[sheet |-> sheetUrl, count |-> frameCount,
                                  fw |-> frameWidth, fh |-> frameHeight]})
  ELSE orphanLoads

\* Variant of SyncPlayer in which a player whose key changed keeps the frames
\* it held while the new sheet loads.
SyncPlayerKeepsFrames ==
  LET was == PlayerVisible(mounted, selectedMode, currentResult, spriteResult)
      is == PlayerVisible(mounted', selectedMode', currentResult', spriteResult')
  IN IF is /\ was /\ selectedAnimation' = selectedAnimation /\ spriteResult' = spriteResult
     THEN UNCHANGED playerVars
     ELSE /\ viewMode' = "preview"
          /\ imgError' = FALSE
          /\ currentFrame' = 0
          /\ sheetDimensions' = None
          /\ frames' = (IF is /\ was THEN frames ELSE << >>)
          /\ rafPending' = FALSE
          /\ lastFrameTimeRef' = 0
          /\ loadPending' = is
          /\ orphanLoads' = OrphansAfterUnmount
          /\ lastOp' = "none"

\* Brings the player in line with what the page renders after an action:
\* a SpriteAnimator that appears, or whose key (selectedAnimation) changed, is
\* a fresh instance whose load effect has started; one that is no longer
\* rendered is gone, its pending animation frame cancelled by the cleanup.
SyncPlayer ==
  LET was == PlayerVisible(mounted, selectedMode, currentResult, spriteResult)
      is == PlayerVisible(mounted', selectedMode', currentResult', spriteResult')
  IN IF is /\ was /\ selectedAnimation' = selectedAnimation /\ spriteResult' = spriteResult
     THEN UNCHANGED playerVars
     ELSE /\ viewMode' = "preview"
          /\ imgError' = FALSE
          /\ currentFrame' = 0
          /\ sheetDimensions' = None
          /\ frames' = << >>
          /\ rafPending' = FALSE
          /\ lastFrameTimeRef' = 0
          /\ loadPending' = is
          /\ orphanLoads' = OrphansAfterUnmount
          /\ lastOp' = "none"

\* ------------------------------------------------- navigation and inputs
\* A fresh Generator instance: every useState starts from its initial value,
\* and the mount effect calls checkBackends.
MountPage ==
  /\ mounted' = TRUE
  /\ backend3DStatus' = "checking"
  /\ spriteBackendStatus' = "checking"
  /\ presets' = "none"
  /\ checks' = SetToBag({"sprite"})
  /\ useFiboEnhanced' = FALSE
  /\ errorMessage' = None
  /\ errorType' = "general"
  /\ progressMessage' = << >>
  /\ spriteResult' = None
  /\ selectedAnimation' = << >>
  /\ animationSpeed' = 100
  /\ isPlaying' = TRUE

\* NavBar link to /generate
OpenGenerator ==
  /\ ~mounted
  /\ MountPage
  /\ UNCHANGED << storeVars, runVars, obsVars, now >>
  /\ SyncPlayer

\* Home.handleSelect(mode): setMode(mode), then navigate('/generate')
HomeSelect(mode) ==
  /\ ~mounted
  /\ MountPage
  /\ selectedMode' = mode
  /\ steps' = InitialSteps(mode)
  /\ UNCHANGED << prompt, isGenerating, generationStatus, currentResult, runVars, obsVars, now >>
  /\ SyncPlayer

\* NavBar link to / : the Generator unmounts and its component state is gone.
\* Nothing tells a suspended handleGenerate call about it.
LeaveGenerator ==
  /\ mounted
  /\ mounted' = FALSE
  /\ backend3DStatus' = "checking"
  /\ spriteBackendStatus' = "checking"
  /\ presets' = "none"
  /\ checks' = EmptyBag
  /\ useFiboEnhanced' = FALSE
  /\ errorMessage' = None
  /\ errorType' = "general"
  /\ progressMessage' = << >>
  /\ spriteResult' = None
  /\ selectedAnimation' = << >>
  /\ animationSpeed' = 100
  /\ isPlaying' = TRUE
  /\ ownerMounted' = FALSE
  /\ cancelled' = (cancelled \/ Running)
  /\ UNCHANGED << storeVars, pc, attempt, jobId, outcome, runPrompt,
                  runs, polls, progressCalls, allPending, finalAnswer, now >>
  /\ SyncPlayer

\* A round of checkBackends suspended at `at` goes on to `to`, or is over.
RoundMoves(at, to) == (checks (-) SetToBag({at})) (+) SetToBag({to})
RoundEnds(at) == checks (-) SetToBag({at})

\* setInterval(checkBackends, 30000) fires: another round starts, whatever
\* else the page is doing.  The sprite health check of the round before has
\* settled by then (its time limit is 3 s); its presets request, which has no
\* time limit, and the 3D check after it may still be out.
CheckInterval ==
  /\ mounted
  /\ ~BagIn("sprite", checks)
  /\ checks' = checks (+) SetToBag({"sprite"})
  /\ UNCHANGED << storeVars, mounted, backend3DStatus, spriteBackendStatus, presets,
                  useFiboEnhanced, errorMessage, errorType, progressMessage, spriteResult,
                  selectedAnimation, runVars, obsVars, genVars, playerVars, now >>

\* `await api.checkSpriteHealth()` settles: setSpriteBackendStatus; a healthy
\* backend is asked for its presets, otherwise the 3D check follows.
SpriteHealthSettled(spriteHealthy) ==
  /\ mounted
  /\ BagIn("sprite", checks)
  /\ spriteBackendStatus' = (IF spriteHealthy THEN "online" ELSE "offline")
  /\ checks' = RoundMoves("sprite", IF spriteHealthy THEN "presets" ELSE "3d")
  /\ UNCHANGED << storeVars, mounted, backend3DStatus, presets, useFiboEnhanced, errorMessage,
                  errorType, progressMessage, spriteResult, selectedAnimation, runVars,
                  obsVars, genVars, playerVars, now >>

\* `await api.getSpritePresets()` settles: setPresets, or the catch that
\* only logs; the 3D check follows.  The presets of the backend hold the
\* preset selected.
PresetsSettled(ok) ==
  /\ mounted
  /\ BagIn("presets", checks)
  /\ presets' = (IF ok THEN "loaded" ELSE presets)
  /\ checks' = RoundMoves("presets", "3d")
  /\ UNCHANGED << storeVars, mounted, backend3DStatus, spriteBackendStatus, useFiboEnhanced,
                  errorMessage, errorType, progressMessage, spriteResult, selectedAnimation,
                  runVars, obsVars, genVars, playerVars, now >>

\* `await api.check3DHealth()` settles: setBackend3DStatus, the end of the round.
Backend3DHealthSettled(backend3DHealthy) ==
  /\ mounted
  /\ BagIn("3d", checks)
  /\ backend3DStatus' = (IF backend3DHealthy THEN "online" ELSE "offline")
  /\ checks' = RoundEnds("3d")
  /\ UNCHANGED << storeVars, mounted, spriteBackendStatus, presets, useFiboEnhanced,
                  errorMessage, errorType, progressMessage, spriteResult, selectedAnimation,
                  runVars, obsVars, genVars, playerVars, now >>

\* The FIBO Enhanced switch, rendered in SPRITE mode inside the Advanced
\* Options once the selected preset is loaded (the panel is opened for it).
setUseFiboEnhanced ==
  /\ mounted
  /\ selectedMode = "SPRITE"
  /\ presets = "loaded"
  /\ useFiboEnhanced' = ~useFiboEnhanced
  /\ UNCHANGED << storeVars, mounted, backend3DStatus, spriteBackendStatus, presets, checks,
                  errorMessage, errorType, progressMessage, spriteResult, selectedAnimation,
                  runVars, obsVars, genVars, playerVars, now >>

\* Mode switcher buttons: store.setMode
setMode(mode) ==
  /\ mounted
  /\ selectedMode' = mode
  /\ steps' = InitialSteps(mode)
  /\ UNCHANGED << prompt, isGenerating, generationStatus, currentResult,
                  pageVars, runVars, obsVars, genVars, now >>
  /\ SyncPlayer

\* Prompt textarea: store.setPrompt.  A running attempt goes on with the
\* prompt its closure captured.
setPrompt(text) ==
  /\ mounted
  /\ prompt' = text
  /\ UNCHANGED << selectedMode, isGenerating, generationStatus, steps, currentResult,
                  pageVars, runVars, obsVars, genVars, playerVars, now >>

\* A setter of component state called from the suspended closure reaches the
\* screen only while the instance that made the call is still mounted.
Own(new, old) == IF ownerMounted THEN new ELSE old

\* Variant of Catch that shows the error and resets nothing else.
CatchWithoutReset(msg) ==
  /\ errorType' = Own(ErrorClass(msg), errorType)
  /\ errorMessage' = Own(Some(ErrorText(msg)), errorMessage)
  /\ UNCHANGED << progressMessage, isGenerating, generationStatus >>
  /\ pc' = "done"

\* The catch block of handleGenerate for an Error with message msg.
Catch(msg) ==
  /\ errorType' = Own(ErrorClass(msg), errorType)
  /\ errorMessage' = Own(Some(ErrorText(msg)), errorMessage)
  /\ progressMessage' = Own(<< >>, progressMessage)
  /\ isGenerating' = FALSE
  /\ generationStatus' = "failed"
  /\ pc' = "done"

\* A Generate button that stays enabled while a generation is running.
GenerateEnabledWhileGenerating ==
  /\ mounted
  /\ ~(selectedMode = "SPRITE" /\ spriteBackendStatus # "online")
  /\ ~(selectedMode = "3D" /\ backend3DStatus # "online")

\* ----------------------------------------------------------- handleGenerate
\* The Generate button is disabled while generating or while the backend of
\* the selected mode is not known to be online.
GenerateEnabled ==
  /\ mounted
  /\ ~isGenerating
  /\ ~(selectedMode = "SPRITE" /\ spriteBackendStatus # "online")
  /\ ~(selectedMode = "3D" /\ backend3DStatus # "online")

\* handleGenerate with a blank prompt: the early return.
GenerateBlank ==
  /\ GenerateEnabled
  /\ Trim(prompt) = << >>
  /\ errorMessage' = Some(MsgEnterPrompt)
  /\ UNCHANGED << storeVars, mounted, backend3DStatus, spriteBackendStatus, presets, useFiboEnhanced, checks, errorType,
                  progressMessage, spriteResult, selectedAnimation, runVars, obsVars,
                  genVars, playerVars, now >>

\* The steps after the synchronous part of the 3D branch, up to the first
\* await inside api.generate3D (its first onProgress included).
StepsAtStart3D ==
  ProgressSteps(
    updateStep(updateStep(updateStep(updateStep(INITIAL_STEPS_3D,
      "structured", "active"), "structured", "completed"), "canonical", "active"),
      "mesh", "active"),
    MsgStarting3D)

\* handleGenerate, 3D branch, up to `await api.start3DPipeline(prompt)`.
Generate3D ==
  /\ GenerateEnabled
  /\ Trim(prompt) # << >>
  /\ selectedMode = "3D"
  /\ runs < MaxRuns
  /\ errorMessage' = None
  /\ spriteResult' = None
  /\ steps' = StepsAtStart3D
  /\ isGenerating' = TRUE
  /\ generationStatus' = "generating"
  /\ progressMessage' = MsgStarting3D
  /\ pc' = "starting"
  /\ attempt' = 0
  /\ jobId' = None
  /\ outcome' = NoOutcome
  /\ ownerMounted' = TRUE
  /\ runPrompt' = prompt
  /\ runs' = runs + 1
  /\ polls' = 0
  /\ progressCalls' = 1
  /\ allPending' = TRUE
  /\ finalAnswer' = None
  /\ cancelled' = FALSE
  /\ UNCHANGED << selectedMode, prompt, currentResult, mounted, backend3DStatus,
                  spriteBackendStatus, presets, useFiboEnhanced, checks, errorType, selectedAnimation, genVars, now >>
  /\ SyncPlayer

\* Variant of LoopNext whose loop condition is i <= maxAttempts.
LoopNextInclusive(n, pm) ==
  IF n <= maxAttempts
  THEN /\ pc' = "waiting"
       /\ outcome' = NoOutcome
       /\ progressMessage' = pm
       /\ UNCHANGED << isGenerating, generationStatus, errorMessage, errorType >>
  ELSE /\ outcome' = ErrorOutcome(MsgTimedOut)
       /\ Catch(MsgTimedOut)

\* Variant of LoopNext without the throw after the loop: the call falls off
\* the end of the function.
LoopNextSilent(n, pm) ==
  IF n < maxAttempts
  THEN /\ pc' = "waiting"
       /\ outcome' = NoOutcome
       /\ progressMessage' = pm
       /\ UNCHANGED << isGenerating, generationStatus, errorMessage, errorType >>
  ELSE /\ outcome' = NoOutcome
       /\ pc' = "done"
       /\ progressMessage' = pm
       /\ UNCHANGED << isGenerating, generationStatus, errorMessage, errorType >>

\* The loop header of api.generate3D after `attempt` bodies have run, pm
\* being the progress message on screen: either the next `await wait(5000)`
\* or the throw after the loop.
LoopNext(n, pm) ==
  IF n < maxAttempts
  THEN /\ pc' = "waiting"
       /\ outcome' = NoOutcome
       /\ progressMessage' = pm
       /\ UNCHANGED << isGenerating, generationStatus, errorMessage, errorType >>
  ELSE /\ outcome' = ErrorOutcome(MsgTimedOut)
       /\ Catch(MsgTimedOut)

\* api.start3DPipeline settles.
StartSettled(ans) ==
  /\ pc = "starting"
  /\ IF ans.kind = "ok"
     THEN /\ jobId' = Some(ans.job_id)
          /\ steps' = ProgressSteps(steps,
                        MsgPipelineStartedPre \o Slice0(ans.job_id, 8) \o MsgPipelineStartedPost)
          /\ progressCalls' = progressCalls + 1
          /\ attempt' = 0
          /\ LoopNext(0, Own(MsgPipelineStartedPre \o Slice0(ans.job_id, 8)
                                \o MsgPipelineStartedPost, progressMessage))
     ELSE /\ outcome' = ErrorOutcome(StartError(ans))
          /\ Catch(StartError(ans))
          /\ UNCHANGED << jobId, steps, progressCalls, attempt >>
  /\ UNCHANGED << selectedMode, prompt, currentResult, mounted, backend3DStatus,
                  spriteBackendStatus, presets, useFiboEnhanced, checks, spriteResult, selectedAnimation, ownerMounted,
                  runPrompt, runs, polls, allPending, finalAnswer, cancelled,
                  genVars, playerVars, now >>

\* `await wait(5000)` is over: the timer fires and api.get3DJobStatus is called.
WaitElapsed ==
  /\ pc = "waiting"
  /\ pc' = "polling"
  /\ polls' = polls + 1
  /\ progressCalls' = 0
  /\ UNCHANGED << storeVars, pageVars, attempt, jobId, outcome, ownerMounted, runPrompt,
                  runs, allPending, finalAnswer, cancelled, genVars, playerVars, now >>

\* The lines of handleGenerate after `await api.generate3D(...)` returned.
StepsAtEnd3D(st) ==
  updateStep(updateStep(updateStep(updateStep(st,
    "canonical", "completed"), "mesh", "completed"), "cleanup", "completed"),
    "final", "completed")

\* A setCurrentResult that merges the new model into the result already held:
\* { ...currentResult, type, prompt, fileUrl }.
Asset3DMerged(result) ==
  [id |-> (IF currentResult = None THEN NowText(runs) ELSE currentResult[1].id),
   type |-> "3D", prompt |-> runPrompt,
   thumbnailUrl |-> (IF currentResult = None THEN result.imageUrl
                     ELSE currentResult[1].thumbnailUrl),
   fileUrl |-> result.modelUrl]

Asset3D(result) ==
  [id |-> NowText(runs), type |-> "3D", prompt |-> runPrompt,
   thumbnailUrl |-> result.imageUrl, fileUrl |-> result.modelUrl]

\* api.get3DJobStatus settles: the rest of the loop body, and whatever of
\* handleGenerate follows without a further await.
StatusSettled(ans) ==
  /\ pc = "polling"
  /\ finalAnswer' = (IF ans.kind = "ok" /\ ans.status \notin {"completed", "failed"}
                     THEN finalAnswer ELSE Some(ans))
  /\ allPending' = (allPending /\ ans.kind = "ok" /\ ans.status = "pending")
  /\ IF ans.kind # "ok"
     THEN /\ outcome' = ErrorOutcome(StatusError(ans))
          /\ Catch(StatusError(ans))
          /\ UNCHANGED << steps, currentResult, progressCalls, attempt >>
     ELSE LET sw == PollSwitch(ans)
              st1 == IF sw.progress = None THEN steps ELSE ProgressSteps(steps, sw.progress[1])
              pm1 == IF sw.progress = None THEN progressMessage
                     ELSE Own(sw.progress[1], progressMessage)
          IN /\ progressCalls' = progressCalls + (IF sw.progress = None THEN 0 ELSE 1)
             /\ CASE sw.exit = "return" ->
                       /\ outcome' = sw.result
                       /\ steps' = StepsAtEnd3D(st1)
                       /\ currentResult' = Some(Asset3D(sw.result))
                       /\ progressMessage' = Own(<< >>, pm1)
                       /\ isGenerating' = FALSE
                       /\ generationStatus' = "completed"
                       /\ pc' = "done"
                       /\ UNCHANGED << attempt, errorMessage, errorType >>
                  [] sw.exit = "throw" ->
                       /\ outcome' = sw.result
                       /\ steps' = st1
                       /\ Catch(sw.result.message)
                       /\ UNCHANGED << attempt, currentResult >>
                  [] OTHER ->
                       /\ steps' = st1
                       /\ attempt' = attempt + 1
                       /\ LoopNext(attempt + 1, pm1)
                       /\ UNCHANGED currentResult
  /\ UNCHANGED << selectedMode, prompt, mounted, backend3DStatus, spriteBackendStatus, presets, useFiboEnhanced, checks,
                  spriteResult, selectedAnimation, jobId, ownerMounted, runPrompt,
                  runs, polls, cancelled, genVars, now >>
  /\ SyncPlayer

\* handleGenerate, sprite branch, up to the 300 ms `await`.
GenerateSprite ==
  /\ GenerateEnabled
  /\ Trim(prompt) # << >>
  /\ selectedMode = "SPRITE"
  /\ runs < MaxRuns
  /\ errorMessage' = None
  /\ spriteResult' = None
  /\ steps' = updateStep(INITIAL_STEPS_SPRITE, "concept", "active")
  /\ isGenerating' = TRUE
  /\ generationStatus' = "generating"
  /\ progressMessage' = (IF useFiboEnhanced THEN MsgFiboEnhanced ELSE MsgPreparing)
  /\ pc' = "spriteDelay"
  /\ attempt' = 0
  /\ jobId' = None
  /\ outcome' = NoOutcome
  /\ ownerMounted' = TRUE
  /\ runPrompt' = prompt
  /\ runs' = runs + 1
  /\ polls' = 0
  /\ progressCalls' = 0
  /\ allPending' = TRUE
  /\ finalAnswer' = None
  /\ cancelled' = FALSE
  /\ UNCHANGED << selectedMode, prompt, currentResult, mounted, backend3DStatus,
                  spriteBackendStatus, presets, useFiboEnhanced, checks, errorType, selectedAnimation, genVars, now >>
  /\ SyncPlayer

\* The 300 ms timer fires: up to `await api.generateSprite(...)`.
SpriteDelayElapsed ==
  /\ pc = "spriteDelay"
  /\ steps' = updateStep(updateStep(steps, "concept", "completed"), "spritesheet", "active")
  /\ progressMessage' = Own(MsgGeneratingSheets, progressMessage)
  /\ pc' = "spriteRequest"
  /\ UNCHANGED << selectedMode, prompt, isGenerating, generationStatus, currentResult,
                  mounted, backend3DStatus, spriteBackendStatus, presets, useFiboEnhanced, checks, errorMessage, errorType,
                  spriteResult, selectedAnimation, attempt, jobId, outcome, ownerMounted,
                  runPrompt, obsVars, genVars, playerVars, now >>

AssetSprite(result, firstAnim) ==
  [id |-> result.job_id, type |-> "SPRITE", prompt |-> runPrompt,
   thumbnailUrl |-> getOutputUrl(result.download_urls[KeyCombinedSheet]),
   fileUrl |-> getOutputUrl(result.download_urls[firstAnim \o SuffixGif])]

\* api.generateSprite settles: the rest of handleGenerate.
SpriteSettled(ans) ==
  /\ pc = "spriteRequest"
  /\ IF ans.kind = "ok"
     THEN LET result == ans.result[1]
              firstAnim == result.animations[1].name
          IN /\ steps' = updateStep(updateStep(steps, "spritesheet", "completed"),
                                    "animation", "completed")
             /\ spriteResult' = Own(Some(result), spriteResult)
             /\ selectedAnimation' = Own(firstAnim, selectedAnimation)
             /\ currentResult' = Some(AssetSprite(result, firstAnim))
             /\ isGenerating' = FALSE
             /\ generationStatus' = "completed"
             /\ pc' = "done"
             /\ UNCHANGED << errorMessage, errorType, progressMessage >>
     ELSE /\ Catch(SpriteError(ans))
          /\ UNCHANGED << steps, spriteResult, selectedAnimation, currentResult >>
  /\ UNCHANGED << selectedMode, prompt, mounted, backend3DStatus, spriteBackendStatus, presets, useFiboEnhanced, checks,
                  attempt, jobId, outcome, ownerMounted, runPrompt, obsVars, genVars, now >>
  /\ SyncPlayer

\* The promise of handleGenerate has settled and the call is over: its
\* locals (i, job_id, the captured prompt) are unreachable, and the observers
\* of the call are cleared with them.
CallReturned ==
  /\ pc = "done"
  /\ pc' = "idle"
  /\ attempt' = 0
  /\ jobId' = None
  /\ outcome' = NoOutcome
  /\ ownerMounted' = FALSE
  /\ runPrompt' = << >>
  /\ polls' = 0
  /\ progressCalls' = 0
  /\ allPending' = TRUE
  /\ finalAnswer' = None
  /\ cancelled' = FALSE
  /\ UNCHANGED << storeVars, pageVars, runs, genVars, playerVars, now >>

\* The page renders the ModelViewer: currentResult && selectedMode === '3D'
ModelViewerShown == mounted /\ currentResult # None /\ selectedMode = "3D"

\* ------------------------------------------------------- SpriteAnimator
PlayerShown == PlayerVisible(mounted, selectedMode, currentResult, spriteResult)

\* img.onload of the load effect: the frames cut out of the decoded sheet,
\* each named by the sheet and the source rectangle drawImage copies.
ExtractFrames(url, width, height, fc, fw, fh) ==
  LET calculatedFrameWidth == IF fw # 0 THEN fw ELSE width \div fc
      calculatedFrameHeight == IF fh # 0 THEN fh ELSE height
  IN [k \in 1..fc |-> [sheet |-> url, sx |-> (k - 1) * calculatedFrameWidth, sy |-> 0,
                       sw |-> calculatedFrameWidth, sh |-> calculatedFrameHeight]]

\* Variant of AdvanceDue that ignores the time since the latest advance.
AdvanceAlways(timestamp, last, speed) == TRUE

\* animate(timestamp): whether this callback advances the frame
AdvanceDue(timestamp, last, speed) == timestamp - last >= speed

\* The remainder operator % of JavaScript on integers, b # 0: the result has
\* the sign of the dividend and the magnitude of |a| mod |b|.
JsRem(a, b) ==
  LET abs(x) == IF x < 0 THEN 0 - x ELSE x
      m == abs(a) % abs(b)
  IN IF a < 0 THEN 0 - m ELSE m

\* (prev + 1) % frameCount
NextIndex(prev, fc) == JsRem(prev + 1, fc)

\* (prev - 1 + frameCount) % frameCount
PrevIndex(prev, fc) == JsRem(prev - 1 + fc, fc)

\* Variant of SliderSpeed without the + 30.
SliderSpeedNoOffset(v) == 300 - v

\* The speed slider shows 300 - speed + 30; a position v asks for this speed.
SliderSpeed(v) == 300 - v + 30

\* img.onload; ctx says whether canvas.getContext('2d') gave a context:
\* without one the sheet dimensions are set and setFrames is not called.
ImageLoaded(width, height, ctx) ==
  /\ PlayerShown
  /\ lastOp' = "load"
  /\ loadPending
  /\ loadPending' = FALSE
  /\ UNCHANGED orphanLoads
  /\ sheetDimensions' = Some([width |-> width, height |-> height])
  /\ frames' = (IF ctx
                THEN ExtractFrames(sheetUrl, width, height, frameCount, frameWidth, frameHeight)
                ELSE frames)
  /\ rafPending' = RafWanted(isPlaying, viewMode, frames')
  /\ UNCHANGED << storeVars, pageVars, genVars, viewMode, imgError, currentFrame,
                  lastFrameTimeRef, now, runVars, obsVars >>

\* Variant of ImageFailed that drops the failure.
ImageFailedSilent ==
  /\ PlayerShown
  /\ lastOp' = "error"
  /\ loadPending
  /\ loadPending' = FALSE
  /\ UNCHANGED orphanLoads
  /\ UNCHANGED << storeVars, pageVars, genVars, viewMode, imgError, currentFrame,
                  sheetDimensions, frames, rafPending, lastFrameTimeRef, now,
                  runVars, obsVars >>

\* img.onerror
ImageFailed ==
  /\ PlayerShown
  /\ lastOp' = "error"
  /\ loadPending
  /\ loadPending' = FALSE
  /\ UNCHANGED orphanLoads
  /\ imgError' = TRUE
  /\ UNCHANGED << storeVars, pageVars, genVars, viewMode, currentFrame, sheetDimensions,
                  frames, rafPending, lastFrameTimeRef, now, runVars, obsVars >>

\* A player that is not keyed by the animation: the old load's setters are
\* those of the instance still rendered.
UnmountedStillApplies(new, old) == new

\* A state update of a component instance that has been unmounted is
\* dropped by React: the state of the instance now rendered stays as it is.
Unmounted(new, old) == old

\* img.onload of an orphaned load: the setters it calls are those of the
\* instance that started the load, which is gone.
OrphanLoaded(load, width, height) ==
  /\ BagIn(load, orphanLoads)
  /\ orphanLoads' = orphanLoads (-) SetToBag({load})
  /\ lastOp' = (IF PlayerShown THEN "orphanLoad" ELSE lastOp)
  /\ sheetDimensions' = Unmounted(Some([width |-> width, height |-> height]), sheetDimensions)
  /\ frames' = Unmounted(ExtractFrames(load.sheet, width, height, load.count, load.fw, load.fh),
                         frames)
  /\ rafPending' = (PlayerShown /\ RafWanted(isPlaying, viewMode, frames'))
  /\ UNCHANGED << storeVars, pageVars, genVars, viewMode, imgError, currentFrame,
                  lastFrameTimeRef, loadPending, now, runVars, obsVars >>

\* img.onerror of an orphaned load
OrphanFailed(load) ==
  /\ BagIn(load, orphanLoads)
  /\ orphanLoads' = orphanLoads (-) SetToBag({load})
  /\ lastOp' = (IF PlayerShown THEN "orphanError" ELSE lastOp)
  /\ imgError' = Unmounted(TRUE, imgError)
  /\ UNCHANGED << storeVars, pageVars, genVars, viewMode, currentFrame, sheetDimensions,
                  frames, rafPending, lastFrameTimeRef, loadPending, now, runVars, obsVars >>

\* What the viewer area renders.
Viewer ==
  IF imgError THEN "placeholder"
  ELSE IF viewMode = "sheet" THEN "sheet"
  ELSE IF Len(frames) > 0 THEN "frame"
  ELSE "gif"

\* onError of the GIF <img>, rendered in the preview while there are no frames
GifFailed ==
  /\ PlayerShown
  /\ Viewer = "gif"
  /\ lastOp' = "gifError"
  /\ imgError' = TRUE
  /\ UNCHANGED << storeVars, pageVars, genVars, viewMode, currentFrame, sheetDimensions,
                  frames, rafPending, lastFrameTimeRef, loadPending, orphanLoads, now, runVars, obsVars >>

\* onError of the sheet <img>, rendered in the sheet view
SheetImgFailed ==
  /\ PlayerShown
  /\ Viewer = "sheet"
  /\ lastOp' = "sheetError"
  /\ imgError' = TRUE
  /\ UNCHANGED << storeVars, pageVars, genVars, viewMode, currentFrame, sheetDimensions,
                  frames, rafPending, lastFrameTimeRef, loadPending, orphanLoads, now, runVars, obsVars >>

\* The requested animation frame fires dt ms after the previous reading of
\* the clock: animate(timestamp), which requests the next one.
AnimationFrame(dt) ==
  /\ PlayerShown
  /\ lastOp' = "tick"
  /\ rafPending
  /\ now + dt <= MaxTime
  /\ now' = now + dt
  /\ IF AdvanceDue(now', lastFrameTimeRef, animationSpeed)
     THEN /\ currentFrame' = NextIndex(currentFrame, frameCount)
          /\ lastFrameTimeRef' = now'
     ELSE UNCHANGED << currentFrame, lastFrameTimeRef >>
  /\ rafPending' = TRUE
  /\ UNCHANGED << storeVars, pageVars, genVars, viewMode, imgError, sheetDimensions,
                  frames, loadPending, orphanLoads, runVars, obsVars >>

\* Time goes by while no animation frame is requested.
TimePasses(dt) ==
  /\ PlayerShown
  /\ ~rafPending
  /\ now + dt <= MaxTime
  /\ now' = now + dt
  /\ UNCHANGED << storeVars, pageVars, genVars, playerVars, runVars, obsVars >>

\* Variant of TogglePlay that starts over from the first frame on resume.
TogglePlayRestarts ==
  /\ PlayerShown
  /\ lastOp' = "toggle"
  /\ viewMode = "preview"
  /\ isPlaying' = ~isPlaying
  /\ currentFrame' = (IF isPlaying' THEN 0 ELSE currentFrame)
  /\ rafPending' = RafWanted(isPlaying', viewMode, frames)
  /\ UNCHANGED << storeVars, pageVars, animationSpeed, viewMode, imgError,
                  sheetDimensions, frames, lastFrameTimeRef, loadPending, orphanLoads, now,
                  runVars, obsVars >>

\* Play / pause button: setIsPlaying(!isPlaying)
TogglePlay ==
  /\ PlayerShown
  /\ lastOp' = "toggle"
  /\ viewMode = "preview"
  /\ isPlaying' = ~isPlaying
  /\ rafPending' = RafWanted(isPlaying', viewMode, frames)
  /\ UNCHANGED << storeVars, pageVars, animationSpeed, viewMode, imgError, currentFrame,
                  sheetDimensions, frames, lastFrameTimeRef, loadPending, orphanLoads, now,
                  runVars, obsVars >>

\* nextFrame (the button is disabled while playing)
nextFrame ==
  /\ PlayerShown
  /\ lastOp' = "next"
  /\ viewMode = "preview"
  /\ ~isPlaying
  /\ isPlaying' = FALSE
  /\ currentFrame' = NextIndex(currentFrame, frameCount)
  /\ rafPending' = RafWanted(isPlaying', viewMode, frames)
  /\ UNCHANGED << storeVars, pageVars, animationSpeed, viewMode, imgError,
                  sheetDimensions, frames, lastFrameTimeRef, loadPending, orphanLoads, now,
                  runVars, obsVars >>

\* prevFrame (the button is disabled while playing)
prevFrame ==
  /\ PlayerShown
  /\ lastOp' = "prev"
  /\ viewMode = "preview"
  /\ ~isPlaying
  /\ isPlaying' = FALSE
  /\ currentFrame' = PrevIndex(currentFrame, frameCount)
  /\ rafPending' = RafWanted(isPlaying', viewMode, frames)
  /\ UNCHANGED << storeVars, pageVars, animationSpeed, viewMode, imgError,
                  sheetDimensions, frames, lastFrameTimeRef, loadPending, orphanLoads, now,
                  runVars, obsVars >>

\* Variant of handleFrameClick without setIsPlaying(false).
handleFrameClickKeepsPlaying(index) ==
  /\ PlayerShown
  /\ lastOp' = "click"
  /\ index < Len(frames)
  /\ viewMode' = "preview"
  /\ currentFrame' = index
  /\ rafPending' = RafWanted(isPlaying, viewMode', frames)
  /\ UNCHANGED << storeVars, pageVars, genVars, imgError, sheetDimensions, frames,
                  lastFrameTimeRef, loadPending, orphanLoads, now, runVars, obsVars >>

\* handleFrameClick(index): a thumbnail of the timeline, one per frame
handleFrameClick(index) ==
  /\ PlayerShown
  /\ lastOp' = "click"
  /\ index < Len(frames)
  /\ isPlaying' = FALSE
  /\ viewMode' = "preview"
  /\ currentFrame' = index
  /\ rafPending' = RafWanted(isPlaying', viewMode', frames)
  /\ UNCHANGED << storeVars, pageVars, animationSpeed, imgError, sheetDimensions, frames,
                  lastFrameTimeRef, loadPending, orphanLoads, now, runVars, obsVars >>

\* The frame scrub input (min 0, max frameCount - 1), shown while paused
Scrub(value) ==
  /\ PlayerShown
  /\ lastOp' = "scrub"
  /\ viewMode = "preview"
  /\ ~isPlaying
  /\ value <= frameCount - 1
  /\ currentFrame' = value
  /\ UNCHANGED << storeVars, pageVars, genVars, viewMode, imgError, sheetDimensions,
                  frames, rafPending, lastFrameTimeRef, loadPending, orphanLoads, now, runVars, obsVars >>

\* Variant of SpeedSlider whose effect re-run starts the timing over.
SpeedSliderRestarts(value) ==
  /\ PlayerShown
  /\ lastOp' = "speed"
  /\ viewMode = "preview"
  /\ animationSpeed' = SliderSpeed(value)
  /\ currentFrame' = 0
  /\ rafPending' = RafWanted(isPlaying, viewMode, frames)
  /\ UNCHANGED << storeVars, pageVars, isPlaying, viewMode, imgError,
                  sheetDimensions, frames, lastFrameTimeRef, loadPending, orphanLoads, now,
                  runVars, obsVars >>

\* The speed slider: onSpeedChange(300 - value + 30)
SpeedSlider(value) ==
  /\ PlayerShown
  /\ lastOp' = "speed"
  /\ viewMode = "preview"
  /\ animationSpeed' = SliderSpeed(value)
  /\ rafPending' = RafWanted(isPlaying, viewMode, frames)
  /\ UNCHANGED << storeVars, pageVars, isPlaying, viewMode, imgError, currentFrame,
                  sheetDimensions, frames, lastFrameTimeRef, loadPending, orphanLoads, now,
                  runVars, obsVars >>

\* ANIMATION button: setViewMode('preview')
ShowPreview ==
  /\ PlayerShown
  /\ lastOp' = "preview"
  /\ viewMode' = "preview"
  /\ rafPending' = RafWanted(isPlaying, viewMode', frames)
  /\ UNCHANGED << storeVars, pageVars, genVars, imgError, currentFrame, sheetDimensions,
                  frames, lastFrameTimeRef, loadPending, orphanLoads, now, runVars, obsVars >>

\* SHEET button: setViewMode('sheet'); setIsPlaying(false)
ShowSheet ==
  /\ PlayerShown
  /\ lastOp' = "sheet"
  /\ viewMode' = "sheet"
  /\ isPlaying' = FALSE
  /\ rafPending' = RafWanted(isPlaying', viewMode', frames)
  /\ UNCHANGED << storeVars, pageVars, animationSpeed, imgError, currentFrame,
                  sheetDimensions, frames, lastFrameTimeRef, loadPending, orphanLoads, now,
                  runVars, obsVars >>

\* An animation tab of the page: setSelectedAnimation(anim) and
\* setCurrentResult({...currentResult, fileUrl}).  The player is keyed by
\* selectedAnimation, so another tab means another player instance.
SelectAnimation(anim) ==
  /\ PlayerShown
  /\ anim \in AnimNames(spriteResult[1].animations)
  /\ selectedAnimation' = anim
  /\ currentResult' = Some([currentResult[1] EXCEPT
         !.fileUrl = getOutputUrl(spriteResult[1].download_urls[anim \o SuffixGif])])
  /\ UNCHANGED << selectedMode, prompt, isGenerating, generationStatus, steps, mounted,
                  backend3DStatus, spriteBackendStatus, presets, useFiboEnhanced, checks, errorMessage, errorType,
                  progressMessage, spriteResult, genVars, now, runVars, obsVars >>
  /\ SyncPlayer

\* ---------------------------------------------------------- specification
\* One more of the MaxEvents gestures and environment events of a behaviour.
Counted == events < MaxEvents /\ events' = events + 1

\* One more of the MaxRemounts replacements of the player instance.
Remount == events < MaxRemounts /\ events' = events + 1

\* One more of the MaxLoadEvents events of the loading of sheets.
LoadEvent == events < MaxLoadEvents /\ events' = events + 1

\* A step of a generation attempt, or a step where the events are not counted.
Uncounted == UNCHANGED events

\* Every event of the Generator page and of the SpriteAnimator it renders.
Next ==
  \/ Counted /\ OpenGenerator
  \/ Counted /\ \E mode \in {"3D", "SPRITE"} : HomeSelect(mode)
  \/ Counted /\ LeaveGenerator
  \/ Counted /\ CheckInterval
  \/ Counted /\ \E spriteHealthy \in BOOLEAN : SpriteHealthSettled(spriteHealthy)
  \/ Counted /\ \E ok \in BOOLEAN : PresetsSettled(ok)
  \/ Counted /\ \E backend3DHealthy \in BOOLEAN : Backend3DHealthSettled(backend3DHealthy)
  \/ Counted /\ setUseFiboEnhanced
  \/ Counted /\ \E mode \in {"3D", "SPRITE"} : setMode(mode)
  \/ Counted /\ \E text \in Prompts : setPrompt(text)
  \/ Uncounted /\ GenerateBlank
  \/ Uncounted /\ Generate3D
  \/ Uncounted /\ \E ans \in StartAnswers : StartSettled(ans)
  \/ Uncounted /\ WaitElapsed
  \/ Uncounted /\ \E ans \in AppStatusAnswers : StatusSettled(ans)
  \/ Uncounted /\ GenerateSprite
  \/ Uncounted /\ SpriteDelayElapsed
  \/ Uncounted /\ \E ans \in SpriteAnswers : SpriteSettled(ans)
  \/ Uncounted /\ CallReturned
  \/ Counted /\ \E anim \in {AnimIdle, AnimWalk} : SelectAnimation(anim)
  \/ Counted /\ \E size \in SheetSizes, ctx \in BOOLEAN : ImageLoaded(size[1], size[2], ctx)
  \/ Counted /\ ImageFailed
  \/ Counted /\ \E load \in BagToSet(orphanLoads), size \in SheetSizes : OrphanLoaded(load, size[1], size[2])
  \/ Counted /\ \E load \in BagToSet(orphanLoads) : OrphanFailed(load)
  \/ Counted /\ GifFailed
  \/ Counted /\ SheetImgFailed
  \/ Counted /\ \E dt \in FrameDeltas : AnimationFrame(dt)
  \/ Counted /\ \E dt \in FrameDeltas : TimePasses(dt)
  \/ Counted /\ TogglePlay
  \/ Counted /\ nextFrame
  \/ Counted /\ prevFrame
  \/ Counted /\ \E index \in 0..5 : handleFrameClick(index)
  \/ Counted /\ \E value \in 0..5 : Scrub(value)
  \/ Counted /\ \E value \in SliderValues : SpeedSlider(value)
  \/ Counted /\ ShowPreview
  \/ Counted /\ ShowSheet

Spec == Init /\ [][Next]_vars

\* api.generate3D on its own: the Generator page is open in 3D mode with a
\* prompt typed and the 3D backend online, and every status answer is tried.
InitPoll ==
  /\ selectedMode = "3D"
  /\ prompt = <<"c","a","t">>
  /\ isGenerating = FALSE
  /\ generationStatus = "idle"
  /\ steps = INITIAL_STEPS_3D
  /\ currentResult = None
  /\ mounted = TRUE
  /\ backend3DStatus = "online"
  /\ spriteBackendStatus = "online"
  /\ presets = "loaded"
  /\ checks = EmptyBag
  /\ useFiboEnhanced = FALSE
  /\ errorMessage = None
  /\ errorType = "general"
  /\ progressMessage = << >>
  /\ spriteResult = None
  /\ selectedAnimation = << >>
  /\ animationSpeed = 100
  /\ isPlaying = TRUE
  /\ NoPlayer
  /\ now = 0
  /\ pc = "idle"
  /\ attempt = 0
  /\ jobId = None
  /\ outcome = NoOutcome
  /\ ownerMounted = FALSE
  /\ runPrompt = << >>
  /\ runs = 0
  /\ polls = 0
  /\ progressCalls = 0
  /\ allPending = TRUE
  /\ finalAnswer = None
  /\ cancelled = FALSE
  /\ events = 0

NextPoll ==
  \/ Uncounted /\ Generate3D
  \/ Uncounted /\ \E ans \in StartAnswers : StartSettled(ans)
  \/ Uncounted /\ WaitElapsed
  \/ Uncounted /\ \E ans \in StatusAnswers : StatusSettled(ans)

SpecPoll == InitPoll /\ [][NextPoll]_vars

\* A sprite generation has just delivered `result` to the open page, and the
\* player rendered for it starts loading.
PlayerStartsWith(result) ==
  /\ selectedMode = "SPRITE"
  /\ prompt = <<"c","a","t">>
  /\ isGenerating = FALSE
  /\ generationStatus = "completed"
  /\ steps = updateStep(updateStep(updateStep(INITIAL_STEPS_SPRITE, "concept", "completed"),
                                   "spritesheet", "completed"), "animation", "completed")
  /\ spriteResult = result
  /\ selectedAnimation = result[1].animations[1].name
  /\ currentResult = Some(
       [id |-> result[1].job_id, type |-> "SPRITE", prompt |-> <<"c","a","t">>,
        thumbnailUrl |-> getOutputUrl(result[1].download_urls[KeyCombinedSheet]),
        fileUrl |-> getOutputUrl(result[1].download_urls[
                      result[1].animations[1].name \o SuffixGif])])
  /\ mounted = TRUE
  /\ backend3DStatus = "online"
  /\ spriteBackendStatus = "online"
  /\ presets = "loaded"
  /\ checks = EmptyBag
  /\ useFiboEnhanced = FALSE
  /\ errorMessage = None
  /\ errorType = "general"
  /\ progressMessage = MsgGeneratingSheets
  /\ animationSpeed = 100
  /\ isPlaying = TRUE
  /\ viewMode = "preview"
  /\ imgError = FALSE
  /\ currentFrame = 0
  /\ sheetDimensions = None
  /\ frames = << >>
  /\ rafPending = FALSE
  /\ lastFrameTimeRef = 0
  /\ loadPending = TRUE
  /\ orphanLoads = EmptyBag
  /\ lastOp = "none"
  /\ now = 0
  /\ pc = "idle"
  /\ attempt = 0
  /\ jobId = None
  /\ outcome = NoOutcome
  /\ ownerMounted = FALSE
  /\ runPrompt = << >>
  /\ runs = 1
  /\ polls = 0
  /\ progressCalls = 0
  /\ allPending = TRUE
  /\ finalAnswer = None
  /\ cancelled = FALSE
  /\ events = 0

\* The sprite player on its own, with the results the backend answers of
\* SpriteAnswers carry.
InitPlayer == \E ans \in SpriteAnswers : ans.kind = "ok" /\ PlayerStartsWith(ans.result)

\* The player alone: `events` counts the gestures that replace the player
\* instance (an animation tab, a mode button).
NextPlayer ==
  \/ Uncounted /\ \E size \in SheetSizes, ctx \in BOOLEAN : ImageLoaded(size[1], size[2], ctx)
  \/ Uncounted /\ ImageFailed
  \/ Uncounted /\ \E load \in BagToSet(orphanLoads), size \in SheetSizes : OrphanLoaded(load, size[1], size[2])
  \/ Uncounted /\ \E load \in BagToSet(orphanLoads) : OrphanFailed(load)
  \/ Uncounted /\ GifFailed
  \/ Uncounted /\ SheetImgFailed
  \/ Uncounted /\ \E dt \in PlayerFrameDeltas : AnimationFrame(dt)
  \/ Uncounted /\ \E dt \in PlayerFrameDeltas : TimePasses(dt)
  \/ Uncounted /\ TogglePlay
  \/ Uncounted /\ nextFrame
  \/ Uncounted /\ prevFrame
  \/ Uncounted /\ \E index \in 0..5 : handleFrameClick(index)
  \/ Uncounted /\ \E value \in 0..5 : Scrub(value)
  \/ Uncounted /\ \E value \in SliderValues : SpeedSlider(value)
  \/ Uncounted /\ ShowPreview
  \/ Uncounted /\ ShowSheet
  \/ Remount /\ \E anim \in {AnimIdle, AnimWalk} : SelectAnimation(anim)
  \/ Remount /\ \E mode \in {"3D", "SPRITE"} : setMode(mode)

SpecPlayer == InitPlayer /\ [][NextPlayer]_vars

\* The loading and display of sheets: the player after a sprite result of
\* LoadResults, its images settling, every control of the player, the
\* animation loop, the animation tabs, the mode buttons and another
\* generation.  `events` counts every event other than an image load
\* settling and the steps of the generation under way.
InitLoad == \E result \in LoadResults : PlayerStartsWith(Some(result))

NextLoad ==
  \/ Uncounted /\ \E size \in LoadSheetSizes, ctx \in BOOLEAN : ImageLoaded(size[1], size[2], ctx)
  \/ Uncounted /\ ImageFailed
  \/ Uncounted /\ \E load \in BagToSet(orphanLoads), size \in LoadSheetSizes : OrphanLoaded(load, size[1], size[2])
  \/ Uncounted /\ \E load \in BagToSet(orphanLoads) : OrphanFailed(load)
  \/ LoadEvent /\ GifFailed
  \/ LoadEvent /\ SheetImgFailed
  \/ LoadEvent /\ \E dt \in PlayerFrameDeltas : AnimationFrame(dt)
  \/ LoadEvent /\ \E dt \in PlayerFrameDeltas : TimePasses(dt)
  \/ LoadEvent /\ TogglePlay
  \/ LoadEvent /\ nextFrame
  \/ LoadEvent /\ prevFrame
  \/ LoadEvent /\ \E index \in 0..6 : handleFrameClick(index)
  \/ LoadEvent /\ \E value \in 0..6 : Scrub(value)
  \/ LoadEvent /\ \E value \in SliderValues : SpeedSlider(value)
  \/ LoadEvent /\ ShowPreview
  \/ LoadEvent /\ ShowSheet
  \/ LoadEvent /\ \E anim \in {AnimIdle, AnimWalk} : SelectAnimation(anim)
  \/ LoadEvent /\ \E mode \in {"3D", "SPRITE"} : setMode(mode)
  \/ LoadEvent /\ Generate3D
  \/ Uncounted /\ \E ans \in StartAnswers : StartSettled(ans)
  \/ Uncounted /\ WaitElapsed
  \/ Uncounted /\ \E ans \in AppStatusAnswers : StatusSettled(ans)
  \/ LoadEvent /\ GenerateSprite
  \/ Uncounted /\ SpriteDelayElapsed
  \/ Uncounted /\ \E ans \in LoadAnswers : SpriteSettled(ans)
  \/ Uncounted /\ CallReturned

SpecLoad == InitLoad /\ [][NextLoad]_vars

\* The polling sequence when every request is answered and every timer fires:
\* fetch settles one way or the other, and setTimeout calls back.
FairSpecPoll ==
  /\ SpecPoll
  /\ WF_vars(Uncounted /\ \E ans \in StartAnswers : StartSettled(ans))
  /\ WF_vars(Uncounted /\ WaitElapsed)
  /\ WF_vars(Uncounted /\ \E ans \in StatusAnswers : StatusSettled(ans))

\* ------------------------------------------------------------------ claims
\* A job was submitted: the polling loop of this call has been entered.
JobStarted == jobId # None

\* The store's currentResult is the asset made by the current call.
ResultOfThisJob == currentResult # None /\ currentResult[1].id = NowText(runs)

\* C1: when every status poll of a job answers `pending`, exactly 120 polls
\* are made and then the call fails with the timeout error: it does not end
\* before the 120th poll, there is no 121st, and no URLs come back.
C1_AlwaysPendingTimesOut ==
  /\ polls <= 120
  /\ (JobStarted /\ allPending /\ pc = "done") =>
        /\ polls = 120
        /\ outcome.kind = "error"
        /\ outcome.message = MsgTimedOut
        /\ outcome.imageUrl = << >> /\ outcome.modelUrl = << >>
        /\ ~ResultOfThisJob
  /\ (JobStarted /\ allPending /\ polls = 120 /\ pc # "polling") => pc = "done"

C1_Witness ==
  /\ JobStarted /\ allPending /\ pc = "done" /\ polls = 120
  /\ outcome = ErrorOutcome(MsgTimedOut)

\* C2: when the first status poll answers `completed` with image_url I and
\* model_url M, the call resolves after that one poll with imageUrl = I, and
\* with modelUrl = M for an absolute M, or the 3D backend base followed by M
\* for an M relative to the backend root; no second poll is made.
C2_FirstCompletedResolves ==
  (polls = 1 /\ finalAnswer # None /\ finalAnswer[1].kind = "ok"
     /\ finalAnswer[1].status = "completed") =>
    LET I == OrEmpty(finalAnswer[1].image_url)
        M == OrEmpty(finalAnswer[1].model_url)
    IN /\ pc = "done"
       /\ outcome.kind = "resolved"
       /\ outcome.imageUrl = I
       /\ StartsWith(M, <<"h","t","t","p">>) => outcome.modelUrl = M
       /\ StartsWith(M, <<"/">>) =>
            outcome.modelUrl = <<"h","t","t","p",":","/","/","l","o","c","a","l","h","o","s","t",
                                 ":","8","0","0","0">> \o M

C2_Witness ==
  /\ polls = 1 /\ pc = "done" /\ finalAnswer # None
  /\ finalAnswer[1].kind = "ok" /\ finalAnswer[1].status = "completed"
  /\ finalAnswer[1].model_url = Some(UrlRelModel)
  /\ outcome.modelUrl = MODEL_3D_API_BASE \o UrlRelModel
  /\ outcome.imageUrl = UrlImage

\* C3: when a status poll answers `failed`, the call fails with an error
\* whose message is the backend's `error` text ("bad input" gives exactly
\* "bad input"), or the generic fallback when the backend gave no text; no
\* URLs come back for the job.
C3_FailedCarriesErrorText ==
  (finalAnswer # None /\ finalAnswer[1].kind = "ok" /\ finalAnswer[1].status = "failed") =>
    /\ pc = "done"
    /\ outcome.kind = "error"
    /\ outcome.imageUrl = << >> /\ outcome.modelUrl = << >>
    /\ ~ResultOfThisJob
    /\ outcome.message =
         (IF finalAnswer[1].error \in {None, Some(<< >>)}
          THEN <<"P","i","p","e","l","i","n","e"," ","f","a","i","l","e","d">>
          ELSE finalAnswer[1].error[1])

C3_Witness ==
  /\ finalAnswer # None /\ finalAnswer[1].kind = "ok" /\ finalAnswer[1].status = "failed"
  /\ finalAnswer[1].error = Some(<<"b","a","d"," ","i","n","p","u","t">>)
  /\ outcome.message = <<"b","a","d"," ","i","n","p","u","t">>
  /\ polls > 1

\* A poll of the current call has answered `completed` or `failed`.
TerminalSeen ==
  finalAnswer # None /\ finalAnswer[1].kind = "ok"
    /\ finalAnswer[1].status \in {"completed", "failed"}

\* C4: `completed` and `failed` are terminal: once a poll has answered one of
\* them the call is over, and as long as no new job is started there is no
\* further status poll, no further onProgress call, and the outcome stays.
C4_TerminalIsFinal ==
  [][TerminalSeen =>
       /\ pc = "done"
       /\ runs' = runs =>
            /\ polls' = polls
            /\ progressCalls' = progressCalls
            /\ outcome' = outcome
            /\ pc' = "done"]_vars

C4_Witness ==
  /\ TerminalSeen /\ finalAnswer[1].status = "completed"
  /\ pc = "done" /\ polls = 3 /\ outcome.kind = "resolved" /\ runs = 2

\* C5: whatever the backend answers, as long as every request settles, a
\* polling sequence ends after at most 120 polls in exactly one of resolved
\* URLs or an error: never more polls, never neither, never both.
C5_EndsWithinBudget ==
  /\ [](/\ polls <= 120
        /\ (JobStarted /\ pc = "done") =>
              \/ /\ outcome.kind = "resolved"
                 /\ ResultOfThisJob
                 /\ currentResult[1].fileUrl = outcome.modelUrl
                 /\ outcome.message = << >>
                 /\ errorMessage = None
              \/ /\ outcome.kind = "error"
                 /\ outcome.imageUrl = << >> /\ outcome.modelUrl = << >>
                 /\ ~ResultOfThisJob
                 /\ errorMessage # None)
  /\ (pc \in {"starting", "waiting", "polling"} ~> pc = "done")

C5_Witness ==
  /\ JobStarted /\ pc = "done" /\ polls = 57 /\ outcome.kind = "resolved"
  /\ ~allPending

\* C7: a failed request of one status poll is not shown to the user: an error
\* of a submitted job is on screen only when the 120 attempts are used up or
\* a poll answered `failed`.
C7_PollErrorNotSurfaced ==
  (JobStarted /\ errorMessage # None) =>
    \/ attempt = 120
    \/ TerminalSeen /\ finalAnswer[1].status = "failed"

\* C6: an in-flight polling loop is cancelable: once the user has navigated
\* away from the generator page while a submitted job is polled, that call
\* makes no further status poll, and no step of it changes the progress
\* message, the step statuses, isGenerating, generationStatus or currentResult.
C6_LoopIsCancelable ==
  [][(JobStarted /\ cancelled /\ cancelled') =>
       /\ polls' = polls
       /\ pc' # pc => UNCHANGED << progressMessage, steps, isGenerating,
                                   generationStatus, currentResult >>]_vars

\* The error of a generation attempt is on screen (not the validation message
\* of the blank prompt, which starts no attempt).
FailureShown == errorMessage # None /\ errorMessage # Some(MsgEnterPrompt)

\* C8: after a generation attempt has ended in a user-visible failure
\* (submission error, terminal `failed`, timeout), isGenerating is false,
\* generationStatus is 'failed' or 'idle', the progress message is empty, and
\* no wait or request of the attempt is pending.
C8_FailureLeavesCleanState ==
  FailureShown =>
    /\ isGenerating = FALSE
    /\ generationStatus \in {"failed", "idle"}
    /\ progressMessage = << >>
    /\ pc \notin {"starting", "waiting", "polling", "spriteDelay", "spriteRequest"}

C8_Witness ==
  /\ FailureShown /\ pc = "done" /\ attempt = 120
  /\ errorMessage = Some(MsgTimedOut) /\ generationStatus = "failed"

\* C9: whenever a sprite player is shown, currentFrame is an index of a
\* frame, 0 <= currentFrame < frameCount, whatever timed advances, next/prev
\* steps, thumbnail clicks, scrubs, toggles, speed changes and changes of the
\* frameCount input came before.
C9_FrameIndexInRange ==
  PlayerShown => currentFrame \in 0..(frameCount - 1)

\* C10: a manual navigation leaves isPlaying = false and shows the requested
\* frame modulo frameCount: next is current + 1, prev is current - 1, a
\* thumbnail is its own index.
C10_SeekPausesAndShows ==
  [][/\ nextFrame =>
          /\ isPlaying' = FALSE
          /\ currentFrame' \in 0..(frameCount - 1)
          /\ (currentFrame' - (currentFrame + 1)) % frameCount = 0
     /\ prevFrame =>
          /\ isPlaying' = FALSE
          /\ currentFrame' \in 0..(frameCount - 1)
          /\ (currentFrame' + 1 - currentFrame) % frameCount = 0
     /\ \A index \in 0..5 : lastOp' = "click" /\ currentFrame' = index =>
          /\ isPlaying' = FALSE
          /\ index = index % frameCount]_vars

C10_Witness ==
  /\ PlayerShown /\ lastOp = "prev" /\ frameCount = 4 /\ currentFrame = 3
  /\ isPlaying = FALSE /\ lastFrameTimeRef = 0

\* C11: a play / pause toggle changes isPlaying and nothing else of the
\* playback state: the frame shown, the speed and the time of the latest
\* advance stay, on resume as on pause, and the animation frame request
\* follows isPlaying alone.  Two toggles with no time between them therefore
\* leave currentFrame where it was.
C11_ToggleKeepsFrame ==
  [][TogglePlay =>
       /\ isPlaying' = ~isPlaying
       /\ currentFrame' = currentFrame
       /\ rafPending' = (isPlaying' /\ viewMode = "preview" /\ frames # << >>)
       /\ UNCHANGED << animationSpeed, viewMode, imgError, sheetDimensions, frames,
                       lastFrameTimeRef, now >>]_vars

C11_Witness ==
  /\ PlayerShown /\ lastOp = "toggle" /\ isPlaying /\ rafPending
  /\ currentFrame = 2 /\ lastFrameTimeRef > 0 /\ now > lastFrameTimeRef

\* C12: a tick of the animation loop shows frame (currentFrame + 1) mod
\* frameCount when the player is playing and at least the interval has gone
\* by since the latest advance, and changes nothing otherwise; it advances by
\* one frame however long that was, and the advance is timed from the tick.
C12_TickAdvancesByOne ==
  [][\A dt \in FrameDeltas : AnimationFrame(dt) =>
       /\ isPlaying' = isPlaying
       /\ animationSpeed' = animationSpeed
       /\ IF isPlaying /\ (now + dt) - lastFrameTimeRef >= animationSpeed
          THEN /\ currentFrame' = (currentFrame + 1) % frameCount
               /\ lastFrameTimeRef' = now + dt
          ELSE /\ currentFrame' = currentFrame
               /\ lastFrameTimeRef' = lastFrameTimeRef]_vars

C12_Witness ==
  /\ PlayerShown /\ lastOp = "tick" /\ animationSpeed = 30
  /\ now = 150 /\ lastFrameTimeRef = 150 /\ currentFrame = 1

\* C13: a change of the speed leaves the frame shown and isPlaying as they
\* are, and the time of the latest advance too: only the interval changes.
C13_SpeedChangeKeepsFrame ==
  [][\A value \in SliderValues : SpeedSlider(value) =>
       /\ currentFrame' = currentFrame
       /\ isPlaying' = isPlaying
       /\ lastFrameTimeRef' = lastFrameTimeRef
       /\ now' = now
       /\ animationSpeed' = 330 - value]_vars

C13_Witness ==
  /\ PlayerShown /\ lastOp = "speed" /\ isPlaying /\ rafPending
  /\ currentFrame = 2 /\ animationSpeed = 30 /\ lastFrameTimeRef > 0

\* C14: the speed handed to the player is within 30..300 ms in every state,
\* and every position of the speed slider asks for a speed in that range.
C14_SpeedInRange ==
  /\ animationSpeed \in 30..300
  /\ \A value \in SliderPositions : SliderSpeed(value) \in 30..300

C14_Witness ==
  /\ PlayerShown /\ lastOp = "speed" /\ animationSpeed = 300 /\ rafPending

\* C15: a loaded sheet of width W and height H with frame count F > 0 gives
\* exactly F frames in index order, frame i cut from the columns
\* [i * floor(W/F), (i+1) * floor(W/F)) over the full height H, and no frame
\* reaches past the width W, with or without an explicit frame size.
C15_FramesCoverSheet ==
  (PlayerShown /\ sheetDimensions # None /\ frameCount > 0) =>
    LET W == sheetDimensions[1].width
        H == sheetDimensions[1].height
        w == W \div frameCount
    IN /\ Len(frames) = frameCount
       /\ \A k \in 1..Len(frames) :
            /\ frames[k].sx = (k - 1) * w
            /\ frames[k].sw = w
            /\ frames[k].sy = 0
            /\ frames[k].sh = H
            /\ frames[k].sx + frames[k].sw <= W

\* C16: the frames a player holds are always the complete output of one load
\* of the sheet it is showing, or none at all: never part of a load, never
\* frames of another sheet, also after the animation shown has changed.
C16_FramesOfOneLoad ==
  IF ~PlayerShown THEN frames = << >>
  ELSE \/ frames = << >>
       \/ /\ ~loadPending
          /\ sheetDimensions # None
          /\ Len(frames) = frameCount
          /\ \A k \in 1..Len(frames) :
               /\ frames[k].sheet = sheetUrl
               /\ frames[k].sw = frames[1].sw
               /\ frames[k].sh = frames[1].sh
               /\ frames[k].sx = (k - 1) * frames[1].sw

C16_Witness ==
  /\ PlayerShown /\ lastOp = "load"
  /\ spriteResult[1].animations[1].name = AnimIdle /\ selectedAnimation = AnimWalk
  /\ Len(frames) = 4 /\ frames[4].sheet = sheetUrl

\* The Image of the load effect has settled without a decoded sheet.
SheetLoadFailed == PlayerShown /\ ~loadPending /\ sheetDimensions = None

\* C17: when the sheet image cannot be loaded the player is in its error
\* state and shows the "image not found" placeholder; it goes on working, holds
\* no frames, and the animation loop does not run: no animation frame is
\* requested, and no callback of the loop advances currentFrame.
C17_LoadFailureShowsPlaceholder ==
  [][/\ SheetLoadFailed' =>
          /\ imgError'
          /\ Viewer' = "placeholder"
          /\ frames' = << >>
          /\ ~rafPending'
     /\ \A dt \in PlayerFrameDeltas : AnimationFrame(dt) => ~SheetLoadFailed]_vars

\* After the failure the controls still work: the player was paused, stepped
\* to the next index by the button, and shows the placeholder.
C17_Witness ==
  /\ SheetLoadFailed /\ lastOp = "next" /\ ~isPlaying /\ viewMode = "preview"
  /\ frameCount = 6 /\ currentFrame = 1

\* C18: a sheet whose frame count is <= 0 is rejected before anything is
\* fetched: no load of the image is under way or has happened, there are no
\* frames, and the player is not in its error state.
C18_NonPositiveCountRejected ==
  (PlayerShown /\ frameCount <= 0) =>
    /\ ~loadPending
    /\ sheetDimensions = None
    /\ frames = << >>
    /\ ~imgError

\* The words the catch block looks for.
ModerationWords == { <<"m","o","d","e","r","a","t","i","o","n">>, <<"c","o","n","t","e","n","t">> }

NetworkWords == { <<"n","e","t","w","o","r","k">>, <<"f","e","t","c","h">>,
                  <<"t","i","m","e","o","u","t">> }

\* E contains one of the words, letter for letter as written.
HasWord(E, words) ==
  \E w \in words : \E k \in 0..(Len(E) - Len(w)) : \A i \in 1..Len(w) : E[k + i] = w[i]

\* The characters that stand for the small ASCII letter c when case is
\* ignored: c, its capital, and for k the Kelvin sign.
AnyCase(c) ==
  {c} \cup { UpperCase[n] : n \in { m \in 1..26 : LowerCase[m] = c } }
      \cup (IF c = "k" THEN {"U+212A"} ELSE {})

\* E contains one of the words, in capital or small letters.
HasWordAnyCase(E, words) ==
  \E w \in words : \E k \in 0..(Len(E) - Len(w)) : \A i \in 1..Len(w) : E[k + i] \in AnyCase(w[i])

\* Every message api.generate3D can throw once the job has started: a failed
\* status request, a `failed` job, and the timeout after the loop.
PollingFailureMessages ==
  { StatusError(a) : a \in { b \in StatusAnswers : b.kind # "ok" } }
    \cup { PollSwitch(a).result.message :
             a \in { b \in StatusAnswers : b.kind = "ok" /\ b.status = "failed" } }
    \cup { MsgTimedOut }

\* C20: when the submission (api.start3DPipeline) fails, the error thrown
\* differs from every error a later polling failure can throw, the message
\* the page shows for it differs from every message shown for a polling
\* failure, and no status poll was made for that attempt.
C20_SubmissionErrorDistinct ==
  (pc = "done" /\ ~JobStarted /\ outcome.kind = "error")
    => /\ polls = 0
       /\ outcome.message \notin PollingFailureMessages
       /\ errorMessage # None
       /\ errorMessage[1] \notin { ErrorText(m) : m \in PollingFailureMessages }

\* The stage of the job the page is following, read off the progress message
\* the latest known status left on screen (0: none of the stage messages).
StageShown ==
  CASE progressMessage = MsgWaiting -> 1
    [] progressMessage = MsgFibo -> 2
    [] progressMessage = MsgTripo -> 3
    [] progressMessage = MsgComplete -> 4
    [] OTHER -> 0

\* C21: across the successive polls of one job the stage followed only moves
\* along pending -> generating_image -> generating_3d -> completed (or to
\* failed): a poll never takes it back to an earlier stage.
C21_StagesOnlyForward ==
  [][\A ans \in StatusAnswers :
       (StatusSettled(ans) /\ StageShown # 0 /\ StageShown' # 0)
          => StageShown' >= StageShown]_vars

\* C22: the generator never has two generation runs in flight: while a call
\* of handleGenerate is suspended (in the submission, a wait, a status poll
\* or the sprite request) isGenerating is true, and a new generation, 3D or
\* sprite, starts only when no call is suspended and isGenerating is false;
\* so at most one polling sequence is active.
C22_OneRunAtATime ==
  [][/\ (Running' => isGenerating')
     /\ ((Generate3D \/ GenerateSprite) => (~Running /\ ~isGenerating /\ Running'))]_vars

\* A run is waiting between two polls while the page is open with a prompt,
\* the 3D mode selected and its backend online: only isGenerating keeps the
\* Generate button from starting a second run.
C22_Witness ==
  /\ pc = "waiting"
  /\ polls = 1
  /\ mounted
  /\ isGenerating
  /\ selectedMode = "3D"
  /\ backend3DStatus = "online"
  /\ Trim(prompt) # << >>
  /\ runs < MaxRuns

\* The player cannot be playing: it is not rendered, or it is paused, or it
\* shows the sheet view, or it has no frames.
PlaybackStopped ==
  ~PlayerShown \/ ~isPlaying \/ viewMode = "sheet" \/ frames = << >>

\* C23: whenever the player is paused, shows the sheet view, has no frames or
\* is unmounted (also by a switch of the animation tab), no animation frame
\* is requested, and the animation callback never runs in such a state, so
\* the timer does not advance the frame index.
C23_NoTickWhenStopped ==
  [][/\ (PlaybackStopped' => ~rafPending')
     /\ \A dt \in FrameDeltas : AnimationFrame(dt) => ~PlaybackStopped]_vars

\* The player has been paused in the middle of the playback.
C23_Witness ==
  /\ PlayerShown
  /\ lastOp = "toggle"
  /\ ~isPlaying
  /\ viewMode = "preview"
  /\ frames # << >>
  /\ currentFrame = 1
  /\ lastFrameTimeRef > 0
  /\ ~rafPending

\* C24: when play is toggled on with the last of six frames shown (as after
\* scrubbing to index 5 while paused), playback resumes from that index: the
\* first animation callback after the toggle, dt ms later, shows index 0 if
\* one interval (animationSpeed ms) of playing has gone by, and still shows
\* index 5 if not.
C24_ResumeWaitsOneInterval ==
  [][\A dt \in FrameDeltas :
       (AnimationFrame(dt) /\ lastOp = "toggle" /\ frameCount = 6 /\ currentFrame = 5)
          => currentFrame' = (IF dt >= animationSpeed THEN 0 ELSE 5)]_vars

\* A generation has just completed and currentResult is, field by field, the
\* asset of that generation: nothing of the result held before is in it.
ReplacedByCompletion ==
  \/ /\ pc = "polling"
     /\ pc' = "done"
     /\ \E ans \in AppStatusAnswers :
          /\ ans.kind = "ok"
          /\ ans.status = "completed"
          /\ currentResult' = Some([id |-> NowText(runs), type |-> "3D", prompt |-> runPrompt,
                                    thumbnailUrl |-> OrEmpty(ans.image_url),
                                    fileUrl |-> ResolveModelUrl(ans.model_url)])
  \/ /\ pc = "spriteRequest"
     /\ pc' = "done"
     /\ \E ans \in SpriteAnswers :
          /\ ans.kind = "ok"
          /\ currentResult' =
               Some([id |-> ans.result[1].job_id, type |-> "SPRITE", prompt |-> runPrompt,
                     thumbnailUrl |-> getOutputUrl(ans.result[1].download_urls[KeyCombinedSheet]),
                     fileUrl |-> getOutputUrl(ans.result[1].download_urls[
                                   ans.result[1].animations[1].name \o SuffixGif])])

\* An animation tab was clicked: currentResult is the result held before with
\* another fileUrl.
FileUrlSwitched ==
  /\ currentResult # None
  /\ currentResult' # None
  /\ \E url \in { getOutputUrl(spriteResult[1].download_urls[a \o SuffixGif]) :
                    a \in (IF spriteResult = None THEN {}
                           ELSE AnimNames(spriteResult[1].animations)) } :
        currentResult' = Some([currentResult[1] EXCEPT !.fileUrl = url])

\* C25 as stated: whenever currentResult changes, a generation has completed
\* and the new object is that generation's result as a whole; no writer
\* merges some fields into the result held before.
C25_ResultNeverMerged ==
  [][currentResult' # currentResult => ReplacedByCompletion]_vars

\* C25 as amended: when a generation completes, currentResult is replaced as
\* a whole by the new generation's result; the only other writer is the
\* animation tab, which keeps the result and replaces its fileUrl alone.
C25_ResultReplacedOnCompletion ==
  [][/\ (currentResult' # currentResult => (ReplacedByCompletion \/ FileUrlSwitched))
     /\ ((pc' = "done" /\ pc # "done" /\ generationStatus' = "completed")
            => ReplacedByCompletion)]_vars

\* The second generation attempt, a 3D one, has completed and its asset is
\* the current result.
C25_Witness ==
  /\ pc = "done"
  /\ runs = 2
  /\ generationStatus = "completed"
  /\ currentResult # None
  /\ currentResult[1].type = "3D"
  /\ currentResult[1].id = NowText(2)
  /\ currentResult[1].thumbnailUrl = UrlImage

\* The progress message of a stage the switch knows.
StageMessage(status) ==
  CASE status = "pending" -> MsgWaiting
    [] status = "generating_image" -> MsgFibo
    [] status = "generating_3d" -> MsgTripo
    [] status = "completed" -> MsgComplete

\* C26: a poll answered with pending, generating_image, generating_3d or
\* completed invokes onProgress exactly once before the next wait or the
\* return, with the message of that stage (for the three stages in progress
\* it is the message then on screen); a poll answered with a status that is
\* none of the known values invokes no onProgress, changes neither message
\* nor steps, and still uses up one of the 120 attempts.
C26_ProgressOncePerPoll ==
  [][\A ans \in StatusAnswers :
       (StatusSettled(ans) /\ ans.kind = "ok" /\ ans.status # "failed")
          => IF ans.status \in {"pending", "generating_image", "generating_3d", "completed"}
             THEN /\ progressCalls' = 1
                  /\ (pc' = "waiting" => /\ progressMessage' = StageMessage(ans.status)
                                         /\ attempt' = attempt + 1)
                  /\ (ans.status = "completed" => pc' = "done" /\ outcome'.kind = "resolved")
             ELSE /\ progressCalls' = 0
                  /\ steps' = steps
                  /\ attempt' = attempt + 1
                  /\ (pc' = "waiting" => progressMessage' = progressMessage)
                  /\ (pc' = "done" <=> attempt' = maxAttempts)]_vars

\* The second poll of a job was answered with an unknown status after the
\* first one said generating_image: no onProgress call, the message stays,
\* and two attempts are used.
C26_Witness ==
  /\ pc = "waiting"
  /\ polls = 2
  /\ attempt = 2
  /\ progressCalls = 0
  /\ progressMessage = MsgFibo

\* What the player rendered is given: the sheet, the frame count and the
\* frame size.
PlayerInputs ==
  IF PlayerShown THEN << sheetUrl, frameCount, frameWidth, frameHeight >> ELSE << >>

\* C27: when the sheet URL, the frame count or the frame size of the player
\* changes (by a tab, a mode button or another generation), with or without
\* a load still pending, the frames held are discarded and a load for the new
\* inputs is started; a load started for older inputs changes nothing in the
\* player when it settles, before or after the new one; and the frames held
\* are always those extracted for the inputs the player has now.
C27_LatestLoadWins ==
  [][/\ (PlayerShown' /\ PlayerInputs' # PlayerInputs)
          => (frames' = << >> /\ sheetDimensions' = None /\ loadPending')
     /\ BagCardinality(orphanLoads') < BagCardinality(orphanLoads)
          => UNCHANGED << frames, sheetDimensions, imgError, currentFrame, rafPending,
                          loadPending >>
     /\ (PlayerShown' /\ frames' # << >>)
          => frames' = ExtractFrames(sheetUrl, sheetDimensions[1].width,
                                     sheetDimensions[1].height, frameCount,
                                     frameWidth, frameHeight)']_vars

\* The tab was switched from idle to walk while idle's sheet was loading and
\* the user generated again while walk's was; the new result has the same
\* sheets and no frame size.  Its idle sheet loaded and the frames were cut
\* for the new inputs; then the older load of walk's sheet completed, and the
\* older load of idle's sheet, started for another frame size, is still out.
C27_Witness ==
  /\ PlayerShown
  /\ lastOp = "orphanLoad"
  /\ runs = 2
  /\ frames # << >>
  /\ Len(frames) = frameCount
  /\ \E load \in BagToSet(orphanLoads) : load.sheet = sheetUrl /\ load.fw # frameWidth

\* C28: the viewer rendered matches the type of the current result: the
\* ModelViewer is rendered only for a result of type 3D and the
\* SpriteAnimator only for a result of type SPRITE.
C28_ViewerMatchesResultType ==
  /\ ModelViewerShown => currentResult[1].type = "3D"
  /\ PlayerShown => currentResult[1].type = "SPRITE"

\* The place of a step status in the order pending -> active -> completed.
StepRank(status) ==
  CASE status = "pending" -> 0
    [] status = "active" -> 1
    [] status = "completed" -> 2

\* C29: while a 3D generation run is going on, the status of each progress
\* step only moves forward along pending -> active -> completed: no progress
\* message sets a step back.
C29_StepsOnlyForward ==
  [][(Running /\ Len(steps') = Len(steps))
        => \A k \in 1..Len(steps) :
              StepRank(steps'[k].status) >= StepRank(steps[k].status)]_vars

\* The Image of the load effect has just been decoded by the player rendered.
SheetJustLoaded == PlayerShown /\ lastOp = "load" /\ ~loadPending /\ sheetDimensions # None

\* C30: the player's image-error state reflects the most recent sheet load:
\* once a load of the sheet has succeeded in a player instance, an error state
\* left by an earlier failure in that instance is cleared and the viewer does
\* not show the "image not found" placeholder.
C30_ErrorReflectsLatestLoad ==
  SheetJustLoaded => (~imgError /\ Viewer # "placeholder")

====
